---- MODULE Spec2Model ----
(***************************************************************************)
(* The iteration controller of the easyagent runtime: the think/act loop   *)
(* of the four runners (JSONCompletionRunner, XMLCompletionRunner,         *)
(* JSONCompletionStreamRunner, XMLCompletionStreamRunner).  One step of    *)
(* the model is one pass of the runner's for-loop along one of its paths   *)
(* (or the validation/registration prologue, or the loop exit).            *)
(***************************************************************************)
EXTENDS Integers, Sequences, FiniteSets, TLC

(* ---- bounds of the model ---- *)
MaxIter == 3
MaxRetriesBound == 2
MaxHist == 3

(* ---- values ---- *)
CompleteTaskToolName == "complete_task"
AgentTools == {"echo"}
OutputSchema == "S1"
DefaultMaxMessageHistory == 100
NoTool == [name |-> "", schema |-> ""]
NoPrompt == [userQuery |-> "", tools |-> {}]

(* a tool of the agent, and the complete_task tool for an output schema *)
AgentTool(name) == [name |-> name, schema |-> "in:echo"]

NewCompleteTaskTool(outputSchema) == [name |-> CompleteTaskToolName, schema |-> outputSchema]
CalledNames == {"echo", "ech", "complete_task"}
Inputs == {"in1", "in2"}
Blocking == {"json", "xml"}
Streaming == {"jsonStream", "xmlStream"}
Variants == Blocking \cup Streaming
EmptyId == 0
NoCall == [id |-> 0, name |-> "", input |-> "", output |-> ""]
NoMessage == [role |-> "", text |-> "", iter |-> 0, call |-> NoCall, tools |-> {}]

UserMsg(text) == [role |-> "user", text |-> text, iter |-> 0, call |-> NoCall, tools |-> {}]
AssistantText(text) == [role |-> "assistant", text |-> text, iter |-> 0, call |-> NoCall, tools |-> {}]

(* the message lists a caller may pass in the request *)
RequestMessages ==
    { <<>>,
      <<UserMsg("U0")>>,
      <<UserMsg("U0"), AssistantText("A1")>>,
      <<AssistantText("A0"), UserMsg("U1")>> }

VARIABLES
    variant,            \* which runner executes the request
    hasCallback,        \* callback != nil
    maxMessageHistory,  \* BaseRunner.maxMessageHistory
    reqMessages,        \* req.Messages
    maxIterations,      \* req.MaxIterations
    maxRetries,         \* req.MaxRetries
    registry,           \* r.toolRegistry.tools: tool name -> tool handle
    messages,           \* the controller's message list
    i,                  \* loop index
    consecutiveErrors,  \* the blocking runners' counter
    completed,          \* completed flag
    results,            \* results (the output of complete_task)
    outcome,            \* position of the run: "init", "running", or how it ended
    toolCalls,          \* tool-call records appended to the AgentContext
    nextId,             \* number of identifiers drawn from uuid.New so far
    failsSince,         \* history: counted failures since the last successful tool run
    lastAppended,       \* history: the message appended last
    calls,              \* history: model, hook and tool calls of the last pass
    decoded,            \* history: the tool call decoded in the last pass
    cancelled,          \* ctx.Done() is closed
    userMessage,        \* userMessage, captured before the loop
    prompts,            \* history: the prompt assembled in the last pass
    eventChan,          \* streaming: "made" once Run has made the event channel
    log,                \* compaction alone: a message list
    logCap,             \* compaction alone: its max-message-history
    logCount,           \* compaction alone: messages appended to it so far
    logOp,              \* compaction alone: the operation applied last
    pc,                 \* producer goroutine: where it stands
    iter,               \* producer: loop index i
    done,               \* producer: completed flag
    ctxDone,            \* producer: ctx.Done() is closed
    trippedInDrain,     \* history: the context was cancelled during a drain
    chunks,             \* producer: chunks received in this turn
    parser,             \* producer: the turn's tool-call parser
    reasoningSent,      \* producer: reasoningSent flag of the turn
    toolCall,           \* producer: the turn's completed tool call
    turnEvents,         \* history: events sent on eventChan in this turn
    errorEvents,        \* history: number of error events sent
    lastEvent,          \* history: the event sent last
    closes,             \* history: number of close(eventChan) calls
    sentAfterClose,     \* history: an event was sent on the closed channel
    exitHow,            \* history: the return statement the producer took
    injected,           \* history: error messages injected into the history
    listed,             \* registry alone: the slice GetTools returned last
    opResult,           \* registry alone: the last operation and what it returned
    toolRegistry,       \* runs alone: the registry of one runner, kept across its runs
    agentToolNames,     \* runs alone: the names of agent.Tools
    runCount,           \* runs alone: number of Run calls made on the runner
    started,            \* runs alone: number of Run calls that passed validation
    reqOutputSchema,    \* runs alone: req.OutputSchema of the current run
    runPhase,           \* runs alone: "idle", "running" or "returned"
    runError,           \* runs alone: the error the last Run call returned early with
    registerErr,        \* runs alone: what RegisterTool returned in the last Run call
    catalog,            \* runs alone: the tools in the prompt built last in this run
    dispatched,         \* runs alone: the tool GetTool found for complete_task
    trTools,            \* tasks: tr.tools of the registry the tasks share
    muWriter,           \* tasks: the task holding tr.mu for writing, 0 when none
    muReaders,          \* tasks: the tasks holding tr.mu for reading
    task,               \* tasks: per task, the operation in progress and its locals
    jsonValue,          \* JSON decoder: the tool call the model writes
    jsonDoc,            \* JSON decoder: the characters of its serialized form
    jsonFed,            \* JSON decoder: how many of them were appended
    jsonExtra,          \* JSON decoder: fragments appended after the document
    jsonBuffer,         \* JSON decoder: p.buffer
    jsonParser,         \* JSON decoder: p.parser, the incremental parser
    jsonParsed,         \* JSON decoder: what the last Parse returned
    jsonEver,           \* JSON decoder history: what Parse returned so far
    xmlTurn,            \* XML decoder: the turn the model writes
    xmlDoc,             \* XML decoder: the characters of the turn
    xmlFed,             \* XML decoder: how many of them were appended
    xmlParser,          \* XML decoder: p.xmlParser, the envelope parser
    xmlState,           \* XML decoder: the fields of the ToolCallXMLParser
    xmlParsed,          \* XML decoder: what the last Parse returned
    xmlEver,            \* XML decoder history: appends made, tentative calls returned
    wantsSubstitute,    \* the before-tool hook has a result it wants used in place of the tool run
    pairCallback,       \* a callback is passed to both runs
    pairMaxIterations,  \* req.MaxIterations of both runs
    pairMaxRetries,     \* req.MaxRetries of both runs
    jsonRun,            \* the locals of JSONCompletionRunner.Run
    xmlRun,             \* the locals of XMLCompletionRunner.Run
    chanLen,            \* len(eventChan): events sent and not yet received
    tokenTripped,       \* the cancellation token is tripped
    receiving,          \* the consumer is still receiving from the channel
    sender,             \* where the producer goroutine stands
    pending,            \* the event the producer is sending: "", "event" or the "last" one
    sharedTools,        \* r.toolRegistry.tools of the runner both calls use
    callPhase,          \* per call of Run: "entered", "looping" or "returned"
    callLocals,         \* per call of Run: the locals of its loop
    callTurns           \* per call of Run: the turns its model has produced

run == <<variant, hasCallback, maxMessageHistory, reqMessages, maxIterations,
          maxRetries, registry, messages, i, consecutiveErrors, completed,
          results, outcome, toolCalls, nextId, failsSince, lastAppended,
          calls, decoded, cancelled, userMessage, prompts, eventChan>>

compaction == <<log, logCap, logCount, logOp>>

producer == <<pc, iter, done, ctxDone, trippedInDrain, chunks, parser,
              reasoningSent, toolCall, turnEvents, errorEvents, lastEvent,
              closes, sentAfterClose, exitHow, injected>>

registryOps == <<listed, opResult>>

runs == <<toolRegistry, agentToolNames, runCount, started, reqOutputSchema, runPhase, runError, registerErr, catalog, dispatched>>

tasks == <<trTools, muWriter, muReaders, task>>

jsonDecoder == <<jsonValue, jsonDoc, jsonFed, jsonExtra, jsonBuffer, jsonParser, jsonParsed, jsonEver>>

xmlDecoder == <<xmlTurn, xmlDoc, xmlFed, xmlParser, xmlState, xmlParsed, xmlEver>>

hooks == <<wantsSubstitute>>

pair == <<pairCallback, pairMaxIterations, pairMaxRetries, jsonRun, xmlRun>>

channel == <<chanLen, tokenTripped, receiving, sender, pending>>

concurrent == <<sharedTools, callPhase, callLocals, callTurns>>

vars == <<run, compaction, producer, registryOps, runs, tasks, jsonDecoder, xmlDecoder, hooks, pair, channel, concurrent>>

(* what the steps of one component leave alone *)
besidesCompaction == <<run, producer, registryOps, runs, tasks, jsonDecoder, xmlDecoder, hooks, pair, channel, concurrent>>

besidesProducer == <<run, compaction, registryOps, runs, tasks, jsonDecoder, xmlDecoder, hooks, pair, channel, concurrent>>

besidesRegistry ==
    <<variant, hasCallback, maxMessageHistory, reqMessages, maxIterations,
      maxRetries, messages, i, consecutiveErrors, completed, results, outcome,
      toolCalls, nextId, failsSince, lastAppended, calls, decoded, cancelled,
      userMessage, prompts, eventChan, compaction, producer, runs, tasks, jsonDecoder, xmlDecoder, hooks, pair, channel, concurrent>>

besidesRuns == <<run, compaction, producer, registryOps, tasks, jsonDecoder, xmlDecoder, hooks, pair, channel, concurrent>>

besidesTasks == <<run, compaction, producer, registryOps, runs, jsonDecoder, xmlDecoder, hooks, pair, channel, concurrent>>

besidesJsonDecoder == <<run, compaction, producer, registryOps, runs, tasks, xmlDecoder, hooks, pair, channel, concurrent>>

besidesXmlDecoder == <<run, compaction, producer, registryOps, runs, tasks, jsonDecoder, hooks, pair, channel, concurrent>>

besidesHooks == <<run, compaction, producer, registryOps, runs, tasks, jsonDecoder, xmlDecoder, pair, channel, concurrent>>

besidesPair == <<run, compaction, producer, registryOps, runs, tasks, jsonDecoder, xmlDecoder, hooks, channel, concurrent>>

besidesChannel == <<run, compaction, producer, registryOps, runs, tasks, jsonDecoder, xmlDecoder, hooks, pair, concurrent>>

besidesConcurrent == <<run, compaction, producer, registryOps, runs, tasks, jsonDecoder, xmlDecoder, hooks, pair, channel>>

(* what no step of a run changes: the configuration of the run, and the    *)
(* components exercised on their own                                       *)
request == <<variant, hasCallback, maxMessageHistory, reqMessages, maxIterations,
             maxRetries, compaction, producer, registryOps, runs, tasks, jsonDecoder, xmlDecoder, hooks, pair, channel, concurrent>>

config == <<request, eventChan>>

(* ---- request validation ---- *)
ValidateAnyRole(msgs, maxIt) ==
    IF Len(msgs) = 0 THEN "at least one message is required"
    ELSE IF maxIt <= 0 THEN "max iterations must be positive"
    ELSE "ok"

Validate(msgs, maxIt) ==
    IF Len(msgs) = 0 THEN "at least one message is required"
    ELSE IF maxIt <= 0 THEN "max iterations must be positive"
    ELSE IF msgs[Len(msgs)].role # "user" THEN "last message must be from user"
    ELSE "ok"

(* ---- tool registry ---- *)
RegisterToolOverwrite(reg, tool) ==
    [tools |-> [n \in DOMAIN reg \cup {tool.name} |->
                  IF n = tool.name THEN tool ELSE reg[n]],
     err |-> IF tool.name \in DOMAIN reg THEN "already registered" ELSE "nil"]

(* a registration that takes a tool already present out of the registry *)
RegisterToolToggle(reg, tool) ==
    IF tool.name \in DOMAIN reg
    THEN [tools |-> [n \in DOMAIN reg \ {tool.name} |-> reg[n]],
          err |-> "already registered"]
    ELSE [tools |-> [n \in DOMAIN reg \cup {tool.name} |->
                        IF n = tool.name THEN tool ELSE reg[n]],
          err |-> "nil"]

RegisterTool(reg, tool) ==
    IF tool.name \in DOMAIN reg
    THEN [tools |-> reg, err |-> "already registered"]
    ELSE [tools |-> [n \in DOMAIN reg \cup {tool.name} |->
                        IF n = tool.name THEN tool ELSE reg[n]],
          err |-> "nil"]

UnregisterTool(reg, name) ==
    IF name \notin DOMAIN reg
    THEN [tools |-> reg, err |-> "not found"]
    ELSE [tools |-> [n \in DOMAIN reg \ {name} |-> reg[n]], err |-> "nil"]

GetTool(reg, name) ==
    IF name \notin DOMAIN reg
    THEN [tool |-> NoTool, err |-> "not found"]
    ELSE [tool |-> reg[name], err |-> "nil"]

GetTools(reg) == {reg[n] : n \in DOMAIN reg}

(* t.Name() of every listed tool *)
ToolNames(tools) == {t.name : t \in tools}

(* ---- prompt assembly ---- *)
GetSystemPrompt(message, tools) == [userQuery |-> message.text, tools |-> tools]

(* the message the runner hands to GetSystemPrompt *)
PromptMessageFromHistory(cached, msgs) == msgs[Len(msgs)]

PromptMessage(cached, msgs) == cached

(* ---- the cancellation check at the top of a pass ---- *)
CancelIgnored(c) == FALSE

CancelObserved(c) == c

(* ---- retry cap ---- *)
RetriesExceededOffByOne(cnt, r) == r > 0 /\ cnt >= r

RetriesExceededNoGuard(cnt, r) == cnt > r

RetriesExceeded(cnt, r) == r > 0 /\ cnt > r

(* ---- messages built by the controller ---- *)
ErrorMessage(text, n) ==
    [role |-> "user", text |-> text, iter |-> n, call |-> NoCall, tools |-> {}]

ToolNotFoundMessageNoSentinel(n, name, tools) ==
    [role |-> "user", text |-> "Tool not found", iter |-> n,
     call |-> [NoCall EXCEPT !.name = name],
     tools |-> tools \ {CompleteTaskToolName}]

ToolNotFoundMessage(n, name, tools) ==
    [role |-> "user", text |-> "Tool not found", iter |-> n,
     call |-> [NoCall EXCEPT !.name = name], tools |-> tools]

AssistantMessage(tc) ==
    [role |-> "assistant", text |-> "", iter |-> 0, call |-> tc, tools |-> {}]

Serialize(v, out) == IF v \in {"json", "jsonStream"} THEN "json.Marshal(val)" ELSE "Sprintf(val)"

(* a tool-role message that carries the output without the call's identity *)
ToolResultMessageAnonymous(v, tc, out) ==
    IF out = "nil"
    THEN [role |-> "tool", text |-> "Tool call success, no results", iter |-> 0,
          call |-> NoCall, tools |-> {}]
    ELSE [role |-> "tool", text |-> "", iter |-> 0,
          call |-> [NoCall EXCEPT !.output = Serialize(v, out)], tools |-> {}]

ToolResultMessage(v, tc, out) ==
    IF out = "nil"
    THEN [role |-> "tool", text |-> "Tool call success, no results", iter |-> 0,
          call |-> NoCall, tools |-> {}]
    ELSE [role |-> "tool", text |-> "", iter |-> 0,
          call |-> [tc EXCEPT !.output = Serialize(v, out)], tools |-> {}]

(* messages appended after a successful tool run *)
SuccessMessagesAlways(v, tc, out) == <<ToolResultMessage(v, tc, out)>>

SuccessMessages(v, tc, out) ==
    IF tc.name = CompleteTaskToolName THEN <<>> ELSE <<ToolResultMessage(v, tc, out)>>

(* ---- history compaction ---- *)
CompactPanics(msgs, cap) == Len(msgs) > cap /\ Len(msgs) - cap + 1 > Len(msgs)

CompactHistoryOffByOne(msgs, cap) ==
    IF Len(msgs) > cap
    THEN SubSeq(msgs, 1, 1) \o SubSeq(msgs, Len(msgs) - cap + 1, Len(msgs))
    ELSE msgs

CompactHistoryDropFirst(msgs, cap) ==
    IF Len(msgs) > cap /\ cap >= 1
    THEN SubSeq(msgs, Len(msgs) - cap + 1, Len(msgs))
    ELSE msgs

CompactHistory(msgs, cap) ==
    IF Len(msgs) > cap
    THEN IF Len(msgs) - cap + 1 > 0
         THEN SubSeq(msgs, 1, 1) \o SubSeq(msgs, Len(msgs) - cap + 2, Len(msgs))
         ELSE msgs
    ELSE msgs

(* ---- the complete_task tool ---- *)
CompleteTaskRun(input) == input

(* ---- identifier of a decoded tool call ---- *)
AssignID(v, fresh) == IF v \in Blocking THEN fresh ELSE EmptyId

(* ---- the execution context's tool-call history ---- *)
AppendToolCall(recs, tc) == Append(recs, tc)

(* ---- state after construction of the runner ---- *)
(* the state of a run that has not been started *)
RunNotStarted ==
    /\ registry = <<>>
    /\ messages = <<>>
    /\ i = 0
    /\ consecutiveErrors = 0
    /\ completed = FALSE
    /\ results = "nil"
    /\ outcome = "idle"
    /\ toolCalls = <<>>
    /\ nextId = 0
    /\ failsSince = 0
    /\ lastAppended = NoMessage
    /\ calls = <<>>
    /\ decoded = NoCall
    /\ cancelled = FALSE
    /\ userMessage = NoMessage
    /\ prompts = NoPrompt
    /\ eventChan = "none"

(* no run is in progress *)
RunIdle ==
    /\ variant = "json"
    /\ hasCallback = FALSE
    /\ maxMessageHistory = 0
    /\ reqMessages = <<>>
    /\ maxIterations = 0
    /\ maxRetries = 0
    /\ RunNotStarted

(* the decoder of a turn before any text was appended *)
NewParser ==
    [stage |-> 0, pre |-> "", bad |-> FALSE, name |-> "", foundTag |-> FALSE,
     toolName |-> "", reasoning |-> ""]

NoEvent == [type |-> "none", text |-> "", partial |-> FALSE, call |-> NoCall]

(* no producer goroutine exists *)
ProducerIdle ==
    /\ pc = "idle"
    /\ iter = 0
    /\ done = FALSE
    /\ ctxDone = FALSE
    /\ trippedInDrain = FALSE
    /\ chunks = 0
    /\ parser = NewParser
    /\ reasoningSent = FALSE
    /\ toolCall = NoCall
    /\ turnEvents = <<>>
    /\ errorEvents = 0
    /\ lastEvent = NoEvent
    /\ closes = 0
    /\ sentAfterClose = FALSE
    /\ exitHow = "none"
    /\ injected = 0

(* a slice of tools: its elements, and whether its memory is its own *)
MakeSlice(items) == [items |-> items, own |-> TRUE]

NoOp == [op |-> "none", name |-> "", err |-> "nil", tool |-> NoTool]

(* no registry operation has been made by a caller *)
RegistryOpsIdle ==
    /\ listed = MakeSlice({})
    /\ opResult = NoOp

(* the message list of the compaction specification is not in use *)
CompactionIdle ==
    /\ log = <<>>
    /\ logCap = 0
    /\ logCount = 0
    /\ logOp = "none"

(* no runner is exercised over several runs *)
RunsIdle ==
    /\ toolRegistry = <<>>
    /\ agentToolNames = {}
    /\ runCount = 0
    /\ started = 0
    /\ reqOutputSchema = ""
    /\ runPhase = "idle"
    /\ runError = "nil"
    /\ registerErr = "nil"
    /\ catalog = {}
    /\ dispatched = NoTool

(* no task operates on a shared registry *)
TasksIdle ==
    /\ trTools = <<>>
    /\ muWriter = 0
    /\ muReaders = {}
    /\ task = <<>>

(* no JSON decoder is in use *)
JsonDecoderIdle ==
    /\ jsonValue = <<>>
    /\ jsonDoc = <<>>
    /\ jsonFed = 0
    /\ jsonExtra = 0
    /\ jsonBuffer = <<>>
    /\ jsonParser = <<>>
    /\ jsonParsed = <<>>
    /\ jsonEver = <<>>

(* no XML decoder is in use *)
XmlDecoderIdle ==
    /\ xmlTurn = <<>>
    /\ xmlDoc = <<>>
    /\ xmlFed = 0
    /\ xmlParser = <<>>
    /\ xmlState = <<>>
    /\ xmlParsed = <<>>
    /\ xmlEver = <<>>

(* the callback has no substitute to offer *)
HooksIdle ==
    /\ wantsSubstitute = FALSE

(* no pair of blocking runs is being compared *)
PairIdle ==
    /\ pairCallback = FALSE
    /\ pairMaxIterations = 0
    /\ pairMaxRetries = 0
    /\ jsonRun = <<>>
    /\ xmlRun = <<>>

(* no producer is sending on an event channel *)
ChannelIdle ==
    /\ chanLen = 0
    /\ tokenTripped = FALSE
    /\ receiving = FALSE
    /\ sender = "none"
    /\ pending = ""

(* no two calls of Run are in progress *)
ConcurrentIdle ==
    /\ sharedTools = <<>>
    /\ callPhase = <<>>
    /\ callLocals = <<>>
    /\ callTurns = <<>>

Init ==
    /\ variant \in Variants
    /\ hasCallback \in BOOLEAN
    /\ maxMessageHistory \in 0..MaxHist
    /\ reqMessages \in RequestMessages
    /\ maxIterations \in 0..MaxIter
    /\ maxRetries \in 0..MaxRetriesBound
    /\ registry = [n \in AgentTools |-> AgentTool(n)]
    /\ messages = <<>>
    /\ i = 0
    /\ consecutiveErrors = 0
    /\ completed = FALSE
    /\ results = "nil"
    /\ outcome = "init"
    /\ toolCalls = <<>>
    /\ nextId = 0
    /\ failsSince = 0
    /\ lastAppended = NoMessage
    /\ calls = <<>>
    /\ decoded = NoCall
    /\ cancelled = FALSE
    /\ userMessage = NoMessage
    /\ prompts = NoPrompt
    /\ eventChan = "none"
    /\ CompactionIdle
    /\ ProducerIdle
    /\ RegistryOpsIdle
    /\ RunsIdle
    /\ TasksIdle
    /\ JsonDecoderIdle
    /\ XmlDecoderIdle
    /\ HooksIdle
    /\ PairIdle
    /\ ChannelIdle
    /\ ConcurrentIdle

(* hook h is invoked only when a callback was passed *)
Hook(h) == IF hasCallback THEN <<h>> ELSE <<>>

InLoop == outcome = "running" /\ i < maxIterations /\ ~completed

(* the pass gets beyond the cancellation check *)
Proceeds == InLoop /\ ~CancelObserved(cancelled)

(* the prompt assembled in this pass *)
Assembled ==
    GetSystemPrompt(PromptMessage(userMessage, messages), GetTools(registry))

(* a fatal exit of the pass: the run ends, the loop index is not advanced *)
Fatal(how, cs, tc) ==
    /\ outcome' = how
    /\ calls' = cs
    /\ decoded' = tc
    /\ prompts' = Assembled
    /\ UNCHANGED <<config, registry, i, completed, results, userMessage>>

(* the caller cancels the context *)
Cancel ==
    /\ InLoop
    /\ ~cancelled
    /\ cancelled' = TRUE
    /\ UNCHANGED <<config, registry, messages, i, consecutiveErrors, completed,
                   results, outcome, toolCalls, nextId, failsSince, lastAppended,
                   calls, decoded, userMessage, prompts>>

(* Run, up to the loop: validation, registration of complete_task, locals *)
Start ==
    /\ outcome = "init"
    /\ IF Validate(reqMessages, maxIterations) # "ok"
       THEN /\ outcome' = "invalid_request"
            /\ UNCHANGED <<registry, messages, userMessage, eventChan>>
       ELSE /\ outcome' = "running"
            /\ eventChan' = IF variant \in Streaming THEN "made" ELSE "none"
            /\ registry' = RegisterTool(registry, NewCompleteTaskTool(OutputSchema)).tools
            /\ messages' = reqMessages
            /\ userMessage' = reqMessages[Len(reqMessages)]
    /\ UNCHANGED <<request, i, consecutiveErrors, completed, results, toolCalls,
                   nextId, failsSince, lastAppended, calls, decoded, cancelled,
                   prompts>>

(* ctx.Done() is observed at the top of the pass *)
CheckCancel ==
    /\ InLoop
    /\ CancelObserved(cancelled)
    /\ outcome' = "cancelled"
    /\ calls' = <<>>
    /\ decoded' = NoCall
    /\ UNCHANGED <<config, registry, i, completed, results, userMessage, prompts,
                   messages, consecutiveErrors, toolCalls, nextId, failsSince,
                   lastAppended, cancelled>>

(* GetSystemPrompt returns an error *)
PromptFail ==
    /\ Proceeds
    /\ outcome' = "prompt_failed"
    /\ calls' = <<>>
    /\ decoded' = NoCall
    /\ UNCHANGED <<config, registry, i, completed, results, userMessage, prompts,
                   messages, consecutiveErrors, toolCalls, nextId, failsSince,
                   lastAppended, cancelled>>

(* callback.BeforeModel returns an error *)
BeforeModelFail ==
    /\ Proceeds
    /\ hasCallback
    /\ Fatal("callback_failed", <<"BeforeModel">>, NoCall)
    /\ UNCHANGED <<messages, consecutiveErrors, toolCalls, nextId, failsSince,
                   lastAppended, cancelled>>

(* a counted failure: the blocking runners count it against the cap and      *)
(* either give up or inject the error; the streaming runners only inject it *)
CountedFailure(text, cs, tc, msgsBefore, recs) ==
    /\ failsSince' = failsSince + 1
    /\ toolCalls' = recs
    /\ IF variant \in Blocking
       THEN /\ consecutiveErrors' = consecutiveErrors + 1
            /\ IF RetriesExceeded(consecutiveErrors + 1, maxRetries)
               THEN /\ Fatal("retries_exceeded", cs, tc)
                    /\ messages' = msgsBefore
                    /\ lastAppended' =
                          IF msgsBefore = messages THEN lastAppended
                          ELSE msgsBefore[Len(msgsBefore)]
               ELSE /\ messages' = Append(msgsBefore, ErrorMessage(text, i + 1))
                    /\ lastAppended' = ErrorMessage(text, i + 1)
                    /\ i' = i + 1
                    /\ calls' = cs
                    /\ decoded' = tc
                    /\ prompts' = Assembled
                    /\ UNCHANGED <<config, registry, completed, results, outcome,
                                   userMessage>>
       ELSE /\ messages' = Append(msgsBefore, ErrorMessage(text, i + 1))
            /\ lastAppended' = ErrorMessage(text, i + 1)
            /\ i' = i + 1
            /\ calls' = cs
            /\ decoded' = tc
            /\ prompts' = Assembled
            /\ UNCHANGED <<config, registry, completed, results, outcome,
                           consecutiveErrors, userMessage>>

(* model.Complete / model.StreamComplete returns an error *)
ModelFail ==
    /\ Proceeds
    /\ CountedFailure(IF variant \in Blocking THEN "Model completion failed"
                      ELSE "Model streaming failed",
                      Hook("BeforeModel") \o <<"Model">>, NoCall, messages, toolCalls)
    /\ UNCHANGED <<nextId, cancelled>>

(* callback.AfterModel returns an error: in the blocking runners after any  *)
(* successful completion, in the streaming runners after a decoded call     *)
AfterModelFail ==
    /\ Proceeds
    /\ hasCallback
    /\ \/ /\ variant \in Blocking
          /\ Fatal("callback_failed", <<"BeforeModel", "Model", "AfterModel">>, NoCall)
       \/ /\ variant \in Streaming
          /\ \E name \in CalledNames, input \in Inputs :
                Fatal("callback_failed", <<"BeforeModel", "Model", "AfterModel">>,
                      [id |-> EmptyId, name |-> name, input |-> input, output |-> ""])
    /\ UNCHANGED <<messages, consecutiveErrors, toolCalls, nextId, failsSince,
                   lastAppended, cancelled>>

(* the model output holds no tool call: json.Unmarshal / parseXMLToolCall   *)
(* fails, or the stream closes before the decoder completes a call          *)
DecodeFail ==
    /\ Proceeds
    /\ CountedFailure(IF variant \in Blocking THEN "Failed to parse tool call"
                      ELSE "No valid tool call was generated",
                      IF variant \in Blocking
                      THEN Hook("BeforeModel") \o <<"Model">> \o Hook("AfterModel")
                      ELSE Hook("BeforeModel") \o <<"Model">>,
                      NoCall, messages, toolCalls)
    /\ UNCHANGED <<nextId, cancelled>>

(* streaming: parser.Parse returns an error while the stream is drained *)
StreamDecodeError ==
    /\ Proceeds
    /\ variant \in Streaming
    /\ Fatal("decode_failed", Hook("BeforeModel") \o <<"Model">>, NoCall)
    /\ UNCHANGED <<messages, consecutiveErrors, toolCalls, nextId, failsSince,
                   lastAppended, cancelled>>

(* streaming: ctx.Done() is observed while the stream is drained *)
DrainCancel ==
    /\ Proceeds
    /\ variant \in Streaming
    /\ Fatal("cancelled", Hook("BeforeModel") \o <<"Model">>, NoCall)
    /\ cancelled' = TRUE
    /\ UNCHANGED <<messages, consecutiveErrors, toolCalls, nextId, failsSince,
                   lastAppended>>

(* the tool call decoded from the model output, with its identifier *)
ToolCall(name, input) ==
    [id |-> AssignID(variant, nextId + 1), name |-> name, input |-> input, output |-> ""]

DrawId ==
    /\ nextId' = IF variant \in Blocking THEN nextId + 1 ELSE nextId
    /\ UNCHANGED cancelled

(* the same calls with the after-model hook ahead of the model invocation *)
PreToolAfterModelFirst ==
    Hook("BeforeModel") \o Hook("AfterModel") \o <<"Model", "GetTool">>

(* calls made up to and including the registry lookup of a decoded tool call *)
PreTool == Hook("BeforeModel") \o <<"Model">> \o Hook("AfterModel") \o <<"GetTool">>

(* the decoded tool name is not in the registry *)
ToolNotFound ==
    /\ Proceeds
    /\ \E name \in CalledNames, input \in Inputs :
          LET tc == ToolCall(name, input)
              err == ToolNotFoundMessage(i + 1, name, ToolNames(GetTools(registry)))
          IN /\ GetTool(registry, name).err # "nil"
             /\ messages' = messages \o <<AssistantMessage(tc), err>>
             /\ lastAppended' = err
             /\ calls' = PreTool
             /\ decoded' = tc
    /\ DrawId
    /\ i' = i + 1
    /\ prompts' = Assembled
    /\ UNCHANGED <<config, registry, consecutiveErrors, completed, results, outcome,
                   toolCalls, failsSince, userMessage>>

(* callback.BeforeToolCall returns an error *)
BeforeToolFail ==
    /\ Proceeds
    /\ hasCallback
    /\ \E name \in CalledNames, input \in Inputs :
          LET tc == ToolCall(name, input)
          IN /\ GetTool(registry, name).err = "nil"
             /\ messages' = Append(messages, AssistantMessage(tc))
             /\ lastAppended' = AssistantMessage(tc)
             /\ Fatal("callback_failed", PreTool \o <<"BeforeToolCall">>, tc)
    /\ DrawId
    /\ UNCHANGED <<consecutiveErrors, toolCalls, failsSince>>

(* tool.Run returns an error (complete_task never does) *)
ToolFail ==
    /\ Proceeds
    /\ \E name \in CalledNames \ {CompleteTaskToolName}, input \in Inputs :
          LET tc == ToolCall(name, input)
          IN /\ GetTool(registry, name).err = "nil"
             /\ CountedFailure("tool error",
                               PreTool \o Hook("BeforeToolCall") \o <<"Tool">>, tc,
                               Append(messages, AssistantMessage(tc)),
                               AppendToolCall(toolCalls, tc))
    /\ DrawId

(* tool.Run succeeds and callback.AfterToolCall returns an error *)
AfterToolFail ==
    /\ Proceeds
    /\ hasCallback
    /\ \E name \in CalledNames, input \in Inputs :
          LET tc == ToolCall(name, input)
          IN /\ GetTool(registry, name).err = "nil"
             /\ messages' = Append(messages, AssistantMessage(tc))
             /\ lastAppended' = AssistantMessage(tc)
             /\ Fatal("callback_failed",
                      PreTool \o <<"BeforeToolCall", "Tool", "AfterToolCall">>, tc)
    /\ DrawId
    /\ failsSince' = 0
    /\ UNCHANGED <<consecutiveErrors, toolCalls>>

(* what a successful tool.Run returns *)
ToolOutputs(name, input) ==
    IF name = CompleteTaskToolName THEN {CompleteTaskRun(input)} ELSE {"nil", "val"}

(* tool.Run succeeds: record, reset, terminate or append, compact *)
ToolSuccess ==
    /\ Proceeds
    /\ \E name \in CalledNames, input \in Inputs :
          \E out \in ToolOutputs(name, input) :
             LET tc == ToolCall(name, input)
                 appended == <<AssistantMessage(tc)>> \o SuccessMessages(variant, tc, out)
                 msgs == messages \o appended
             IN /\ GetTool(registry, name).err = "nil"
                /\ decoded' = tc
                /\ toolCalls' = AppendToolCall(toolCalls, tc)
                /\ completed' = (name = CompleteTaskToolName)
                /\ results' = IF name = CompleteTaskToolName THEN out ELSE results
                /\ lastAppended' = appended[Len(appended)]
                /\ IF CompactPanics(msgs, maxMessageHistory)
                   THEN /\ outcome' = "panic"
                        /\ messages' = msgs
                        /\ i' = i
                   ELSE /\ outcome' = outcome
                        /\ messages' = CompactHistory(msgs, maxMessageHistory)
                        /\ i' = i + 1
    /\ DrawId
    /\ calls' = PreTool \o Hook("BeforeToolCall") \o <<"Tool">> \o Hook("AfterToolCall")
    /\ consecutiveErrors' = IF variant \in Blocking THEN 0 ELSE consecutiveErrors
    /\ failsSince' = 0
    /\ prompts' = Assembled
    /\ UNCHANGED <<config, registry, userMessage>>

(* JSON runners: json.Marshal of a successful tool output fails *)
MarshalFail ==
    /\ Proceeds
    /\ variant \in {"json", "jsonStream"}
    /\ \E name \in CalledNames \ {CompleteTaskToolName}, input \in Inputs :
          LET tc == ToolCall(name, input)
          IN /\ GetTool(registry, name).err = "nil"
             /\ messages' = Append(messages, AssistantMessage(tc))
             /\ lastAppended' = AssistantMessage(tc)
             /\ toolCalls' = AppendToolCall(toolCalls, tc)
             /\ Fatal("marshal_failed",
                      PreTool \o Hook("BeforeToolCall") \o <<"Tool">> \o Hook("AfterToolCall"),
                      tc)
    /\ DrawId
    /\ consecutiveErrors' = IF variant \in Blocking THEN 0 ELSE consecutiveErrors
    /\ failsSince' = 0

(* the loop condition fails: the blocking runners return the response, the  *)
(* streaming producers emit the max-iterations error unless completed       *)
LoopExit ==
    /\ outcome = "running"
    /\ ~(i < maxIterations /\ ~completed)
    /\ outcome' = IF variant \in Blocking THEN "response"
                  ELSE IF completed THEN "stream_closed" ELSE "max_iterations"
    /\ UNCHANGED <<config, registry, messages, i, consecutiveErrors, completed,
                   results, toolCalls, nextId, failsSince, lastAppended, calls,
                   decoded, cancelled, userMessage, prompts>>

Next ==
    \/ Start
    \/ Cancel
    \/ CheckCancel
    \/ PromptFail
    \/ BeforeModelFail
    \/ ModelFail
    \/ AfterModelFail
    \/ DecodeFail
    \/ StreamDecodeError
    \/ DrainCancel
    \/ ToolNotFound
    \/ BeforeToolFail
    \/ ToolFail
    \/ AfterToolFail
    \/ ToolSuccess
    \/ MarshalFail
    \/ LoopExit

Spec == Init /\ [][Next]_vars

TypeOK ==
    /\ variant \in Variants
    /\ i \in 0..maxIterations \/ outcome \in {"init", "invalid_request"}
    /\ consecutiveErrors \in Nat
    /\ DOMAIN registry \subseteq AgentTools \cup {CompleteTaskToolName}
    /\ \A n \in DOMAIN registry : registry[n].name = n
    /\ cancelled \in BOOLEAN

Called(c) == \E k \in 1..Len(calls) : calls[k] = c

(***************************************************************************)
(* C1: in the blocking runners, a run whose iteration budget elapses       *)
(* without a successful complete_task returns a MaxIterations error and no *)
(* response: a response is returned only after complete_task succeeded.    *)
(***************************************************************************)
C1_MaxIterationsError ==
    (variant \in Blocking /\ outcome = "response") => completed

(***************************************************************************)
(* C2: in the blocking runners with max-retries = R > 0, the run fails     *)
(* with RetriesExceeded exactly when the number of counted failures since  *)
(* the last successful tool run reaches R + 1, and never earlier.          *)
(***************************************************************************)
C2_RetriesExceededAtCap ==
    (variant \in Blocking /\ maxRetries > 0) =>
        /\ failsSince <= maxRetries + 1
        /\ (outcome = "retries_exceeded") <=> (failsSince = maxRetries + 1)

(* R = 2 and three turns of undecodable output: the run fails at turn 3 *)
C2_Witness ==
    /\ variant \in Blocking
    /\ maxRetries = 2
    /\ outcome = "retries_exceeded"
    /\ i = 2
    /\ Len(messages) = Len(reqMessages) + 2
    /\ \A k \in Len(reqMessages) + 1 .. Len(messages) :
          messages[k].text = "Failed to parse tool call"
    /\ ~Called("GetTool")

(***************************************************************************)
(* C3: in the streaming runners with max-retries = R > 0, a run with more  *)
(* than R consecutive failed iterations (no successful tool run in         *)
(* between) terminates with RetriesExceeded.                               *)
(***************************************************************************)
C3_StreamRetriesExceeded ==
    (variant \in Streaming /\ maxRetries > 0 /\ failsSince > maxRetries) =>
        outcome = "retries_exceeded"

C5_CounterTracksFailures ==
    outcome = "running" => consecutiveErrors = failsSince

(***************************************************************************)
(* C6: when the lookup of the decoded tool name fails, in every runner the *)
(* pass appends the assistant message and a user-role error that lists     *)
(* every registered tool name (complete_task included), leaves the counter *)
(* and the execution context alone, calls no tool hook and no tool, and    *)
(* the run continues with the next iteration.                              *)
(***************************************************************************)
C6_UnknownTool ==
    [][ (Proceeds /\ cancelled' = cancelled /\ vars' # vars
           /\ Len(calls') > 0 /\ calls'[Len(calls')] = "GetTool"
           /\ GetTool(registry', decoded'.name).err # "nil") =>
          /\ Len(messages') = Len(messages) + 2
          /\ SubSeq(messages', 1, Len(messages)) = messages
          /\ messages'[Len(messages) + 1] = AssistantMessage(decoded')
          /\ messages'[Len(messages) + 2].role = "user"
          /\ messages'[Len(messages) + 2].tools = ToolNames(GetTools(registry'))
          /\ CompleteTaskToolName \in messages'[Len(messages) + 2].tools
          /\ consecutiveErrors' = consecutiveErrors
          /\ toolCalls' = toolCalls
          /\ outcome' = "running"
          /\ i' = i + 1 ]_vars

(* the call of "ech" was answered with the tool list, in a run with hooks *)
C6_Witness ==
    /\ decoded.name = "ech"
    /\ hasCallback
    /\ lastAppended.text = "Tool not found"
    /\ lastAppended.tools = {"echo", "complete_task"}
    /\ outcome = "running"

(***************************************************************************)
(* C7: in a blocking run the successful invocation of complete_task ends   *)
(* the loop: nothing (no model, hook or tool call, no append) follows the  *)
(* invocation, and the response output is the input passed to the tool.    *)
(***************************************************************************)
C7_CompleteTaskEndsRun ==
    (variant \in Blocking /\ decoded.name = CompleteTaskToolName /\ Called("Tool")) =>
        /\ calls[Len(calls)] = "Tool"
        /\ lastAppended = AssistantMessage(decoded)
        /\ outcome = "response" => results = decoded.input

(***************************************************************************)
(* C8 (as stated): for every run that terminates via complete_task, the    *)
(* message appended last is a tool-role message of the complete_task call. *)
(***************************************************************************)
C8_LastIsToolMessage ==
    completed =>
        (lastAppended.role = "tool" /\ lastAppended.call.name = CompleteTaskToolName)

(***************************************************************************)
(* C8 (amended): for every run that terminates via complete_task, the      *)
(* message appended last is the assistant-role message carrying the        *)
(* complete_task tool call; no tool-role message is appended for it.       *)
(***************************************************************************)
C8_LastIsAssistantCall ==
    completed =>
        /\ lastAppended.role = "assistant"
        /\ lastAppended.call.name = CompleteTaskToolName
        /\ lastAppended.call = toolCalls[Len(toolCalls)]

C8_Witness ==
    /\ completed
    /\ outcome \in {"response", "stream_closed"}
    /\ Len(toolCalls) = 2
    /\ toolCalls[1].name = "echo"

(***************************************************************************)
(* C9: in all four runners any two tool-call records appended to the       *)
(* execution context during one run have different ids.                    *)
(***************************************************************************)
C9_UniqueIds ==
    \A a, b \in 1..Len(toolCalls) : a # b => toolCalls[a].id # toolCalls[b].id

(***************************************************************************)
(* C10: at every point of every run the first message of the controller's  *)
(* history is the first message of the request.                            *)
(***************************************************************************)
C10_FirstMessagePreserved ==
    outcome \notin {"init", "invalid_request"} =>
        (Len(messages) >= 1 /\ messages[1] = reqMessages[1])

(* compaction at cap 2 dropped the original user message and kept #0 *)
C10_Witness ==
    /\ maxMessageHistory = 2
    /\ Len(reqMessages) = 2
    /\ Len(messages) = 2
    /\ messages[1] = reqMessages[1]
    /\ messages[2].role = "tool"
    /\ outcome = "running"

(***************************************************************************)
(* C11: compaction follows every append: when the request holds at most    *)
(* max-message-history messages (cap >= 1), the history holds at most that *)
(* many messages at the top of every iteration, also after a pass that     *)
(* took a failure path (model, decode, unknown tool, tool failure).        *)
(***************************************************************************)
C11_HistoryBounded ==
    (outcome = "running" /\ maxMessageHistory >= 1
        /\ Len(reqMessages) <= maxMessageHistory) =>
        Len(messages) <= maxMessageHistory

(***************************************************************************)
(* C13: every prompt assembled during a run carries the text of the last   *)
(* message of the request, captured before the loop, whatever compaction   *)
(* and error appends have done to the history since.                       *)
(***************************************************************************)
C13_PromptUsesOriginal ==
    prompts # NoPrompt => prompts.userQuery = reqMessages[Len(reqMessages)].text

(* the prompt of a pass that began after compaction had dropped the user   *)
(* message and after a user-role error message had become the last message *)
C13_Witness ==
    /\ Len(reqMessages) = 2
    /\ \A k \in 1..Len(messages) : messages[k] # reqMessages[2]
    /\ failsSince = 2
    /\ lastAppended.role = "user"
    /\ prompts.userQuery = "U1"
    /\ outcome = "running"

(***************************************************************************)
(* C16: in a blocking run a pass that starts with the context cancelled    *)
(* ends the run with the cancellation error and does nothing else: no      *)
(* prompt is assembled, no hook, model or tool is invoked, nothing is      *)
(* appended, and no tool call is recorded again.                           *)
(***************************************************************************)
C16_CancelAtTop ==
    [][ (variant \in Blocking /\ InLoop /\ cancelled /\ vars' # vars) =>
          /\ outcome' = "cancelled"
          /\ calls' = <<>>
          /\ prompts' = prompts
          /\ messages' = messages
          /\ toolCalls' = toolCalls
          /\ i' = i ]_vars

(* cancelled at the top of the second pass, after echo ran in the first *)
C16_Witness ==
    /\ variant \in Blocking
    /\ outcome = "cancelled"
    /\ calls = <<>>
    /\ i = 1
    /\ Len(toolCalls) = 1
    /\ toolCalls[1].name = "echo"
    /\ lastAppended.role = "tool"

(***************************************************************************)
(* History compaction on its own: messages are appended to a list and the  *)
(* trim block of the loop body is applied to it at arbitrary moments.      *)
(***************************************************************************)
MaxAppends == 12
MaxCap == 5

(* the k-th message appended *)
Numbered(k) == ErrorMessage("Model completion failed", k)

CompactInit ==
    /\ log = <<>>
    /\ logCap \in 1..MaxCap
    /\ logCount = 0
    /\ logOp = "none"
    /\ RunIdle
    /\ ProducerIdle
    /\ RegistryOpsIdle
    /\ RunsIdle
    /\ TasksIdle
    /\ JsonDecoderIdle
    /\ XmlDecoderIdle
    /\ HooksIdle
    /\ PairIdle
    /\ ChannelIdle
    /\ ConcurrentIdle

AppendMessage ==
    /\ logCount < MaxAppends
    /\ log' = Append(log, Numbered(logCount + 1))
    /\ logCount' = logCount + 1
    /\ logOp' = "append"
    /\ UNCHANGED <<besidesCompaction, logCap>>

Compact ==
    /\ ~CompactPanics(log, logCap)
    /\ log' = CompactHistory(log, logCap)
    /\ logOp' = "compact"
    /\ UNCHANGED <<besidesCompaction, logCap, logCount>>

CompactNext ==
    \/ AppendMessage
    \/ Compact

SpecCompact == CompactInit /\ [][CompactNext]_vars

(***************************************************************************)
(* C12: compacting n messages under cap c with n > c >= 1 leaves exactly c *)
(* messages, message #0 followed by the c-1 most recent ones in their      *)
(* order; a list of n <= c messages is left as it is.                      *)
(***************************************************************************)
C12_CompactionShape ==
    [][ logOp' = "compact" =>
          LET n == Len(log)
              c == logCap
          IN IF n > c
             THEN /\ c >= 1
                  /\ Len(log') = c
                  /\ log'[1] = log[1]
                  /\ \A k \in 2..c : log'[k] = log[n - c + k]
             ELSE log' = log ]_vars

(* cap 5 with 12 messages keeps #0 and the last four *)
C12_Witness ==
    /\ logOp = "compact"
    /\ logCap = 5
    /\ logCount = 12
    /\ log = <<Numbered(1), Numbered(9), Numbered(10), Numbered(11), Numbered(12)>>

(***************************************************************************)
(* The producer goroutine of the streaming runners, one step per segment   *)
(* of code between two receives: the top of a pass up to the opening of    *)
(* the model stream, one step per chunk received, the rest of the pass     *)
(* after the drain, and the deferred close.                                *)
(***************************************************************************)
MaxTurns == 2
MaxChunks == 3

(* texts that may precede the <use-tool> tag *)
PreTexts == {"", " ", " R "}

(* strings.TrimSpace *)
TrimSpace(text) == IF text = " R " THEN "R" ELSE ""

(* concatenation of two texts preceding the tag *)
Join(a, b) ==
    IF a = "" THEN b
    ELSE IF b = "" THEN a
    ELSE IF " R " \in {a, b} THEN " R " ELSE " "

(* how far the text of a turn has got: 0 nothing of the call, 1 the tag    *)
(* (or the name) without readable input, 2 readable partial input, 3 the   *)
(* call is closed                                                          *)
Stages == 0..3

PartialInput == "in1~"
FinalInput == "in1"

(* the text chunks the model may send next *)
TextChunks(v, p) ==
    { c \in [pre : PreTexts, to : Stages, bad : BOOLEAN, name : CalledNames \cup {""}] :
        /\ c.to >= p.stage
        /\ c.bad => c.to = 3
        /\ c.pre # "" => (v = "xmlStream" /\ p.stage = 0)
        /\ c.name = IF p.stage > 0 THEN p.name
                    ELSE IF c.to > 0 THEN c.name ELSE ""
        /\ c.to > 0 => c.name # "" }

(* parser.Append *)
ParserAppend(p, c) ==
    [p EXCEPT !.stage = c.to,
              !.pre = IF p.stage = 0 THEN Join(p.pre, c.pre) ELSE p.pre,
              !.bad = c.bad,
              !.name = c.name]

(* the llm.ToolCall a parser returns: name and input, no id *)
DecodedCall(name, input) == [NoCall EXCEPT !.name = name, !.input = input]

NoResult(p) ==
    [parser |-> p, call |-> NoCall, completed |-> FALSE, reasoning |-> "", err |-> FALSE]

(* ToolCallXMLParser.Parse and ToolCallJsonParser.Parse for the call name *)
Parse(v, p) ==
    IF v = "xmlStream"
    THEN IF p.stage = 0 THEN NoResult(p)
         ELSE LET q == IF p.foundTag THEN p
                       ELSE [p EXCEPT !.foundTag = TRUE,
                                      !.toolName = p.name,
                                      !.reasoning = IF p.pre # ""
                                                    THEN TrimSpace(p.pre)
                                                    ELSE p.reasoning]
              IN IF q.stage = 3
                 THEN IF q.bad THEN [NoResult(q) EXCEPT !.err = TRUE]
                      ELSE [parser |-> q, call |-> DecodedCall(q.toolName, FinalInput),
                            completed |-> TRUE, reasoning |-> q.reasoning, err |-> FALSE]
                 ELSE IF q.stage = 2
                 THEN [parser |-> q, call |-> DecodedCall(q.toolName, PartialInput),
                       completed |-> FALSE, reasoning |-> q.reasoning, err |-> FALSE]
                 ELSE NoResult(q)
    ELSE IF p.stage = 3
         THEN IF p.bad THEN [NoResult(p) EXCEPT !.err = TRUE]
              ELSE [parser |-> p, call |-> DecodedCall(p.name, FinalInput),
                    completed |-> TRUE, reasoning |-> "", err |-> FALSE]
         ELSE IF p.stage = 2
         THEN [parser |-> p, call |-> DecodedCall(p.name, PartialInput),
               completed |-> FALSE, reasoning |-> "", err |-> FALSE]
         ELSE NoResult(p)

(* ---- events ---- *)
ErrorEvent == [type |-> "error", text |-> "", partial |-> FALSE, call |-> NoCall]

ReasoningEvent(text) == [type |-> "reasoning", text |-> text, partial |-> FALSE, call |-> NoCall]

UseToolEvent(tc, partial) == [type |-> "use_tool", text |-> "", partial |-> partial, call |-> tc]

(* the reasoning of a model reasoning chunk *)
Thought == "thought"

(* the reasoning event of a parse result *)
ReasoningEventsEveryTime(reasoning, sent) ==
    IF reasoning # "" THEN <<ReasoningEvent(reasoning)>> ELSE <<>>

ReasoningEvents(reasoning, sent) ==
    IF reasoning # "" /\ ~sent THEN <<ReasoningEvent(reasoning)>> ELSE <<>>

(* the use-tool event of a parse result *)
UseToolEvents(res) ==
    IF res.call # NoCall /\ ~res.completed
    THEN <<UseToolEvent(res.call, TRUE)>>
    ELSE <<>>

(* the event sent after the loop *)
ExhaustedEventsAlways(completedFlag) == <<ErrorEvent>>

ExhaustedEvents(completedFlag) == IF ~completedFlag THEN <<ErrorEvent>> ELSE <<>>

(* the deferred calls of the goroutine *)
DeferredNone == <<>>

Deferred == <<"close">>

(* eventChan <- e for every e of es, in order *)
Send(es) ==
    /\ turnEvents' = turnEvents \o es
    /\ lastEvent' = IF es = <<>> THEN lastEvent ELSE es[Len(es)]
    /\ errorEvents' = errorEvents + Cardinality({k \in 1..Len(es) : es[k].type = "error"})
    /\ sentAfterClose' = (sentAfterClose \/ (es # <<>> /\ closes > 0))

(* return: the goroutine unwinds *)
Return(how) ==
    /\ pc' = "returning"
    /\ exitHow' = how

ProducerInit ==
    /\ variant \in Streaming
    /\ hasCallback \in BOOLEAN
    /\ maxMessageHistory = DefaultMaxMessageHistory
    /\ reqMessages = <<UserMsg("U0")>>
    /\ maxIterations \in 1..MaxTurns
    /\ maxRetries = 0
    /\ RunNotStarted
    /\ CompactionIdle
    /\ ProducerIdle
    /\ RegistryOpsIdle
    /\ RunsIdle
    /\ TasksIdle
    /\ JsonDecoderIdle
    /\ XmlDecoderIdle
    /\ HooksIdle
    /\ PairIdle
    /\ ChannelIdle
    /\ ConcurrentIdle

(* Run: the request is valid, the channel is made, the goroutine starts *)
ProducerStart ==
    /\ pc = "idle"
    /\ Validate(reqMessages, maxIterations) = "ok"
    /\ pc' = "top"
    /\ UNCHANGED <<besidesProducer, iter, done, ctxDone, trippedInDrain, chunks,
                   parser, reasoningSent, toolCall, turnEvents, errorEvents,
                   lastEvent, closes, sentAfterClose, exitHow, injected>>

(* the caller cancels the context while the producer runs *)
CancelContext ==
    /\ pc \in {"top", "drain", "tool"}
    /\ ~ctxDone
    /\ ctxDone' = TRUE
    /\ trippedInDrain' = (pc = "drain")
    /\ UNCHANGED <<besidesProducer, pc, iter, done, chunks, parser, reasoningSent,
                   toolCall, turnEvents, errorEvents, lastEvent, closes,
                   sentAfterClose, exitHow, injected>>

LoopCondition == iter < maxIterations /\ ~done

(* a step of the producer that ends with return after one error event *)
FailWith(how) ==
    /\ Send(<<ErrorEvent>>)
    /\ Return(how)
    /\ UNCHANGED <<besidesProducer, iter, done, ctxDone, trippedInDrain, chunks,
                   parser, reasoningSent, toolCall, closes, injected>>

(* a recoverable failure: an error message is appended, then continue *)
Inject ==
    /\ pc' = "top"
    /\ iter' = iter + 1
    /\ injected' = injected + 1
    /\ UNCHANGED <<besidesProducer, done, ctxDone, trippedInDrain, chunks, parser,
                   reasoningSent, toolCall, turnEvents, errorEvents, lastEvent,
                   closes, sentAfterClose, exitHow>>

(* top of a pass: ctx.Done() is ready *)
TopCancelled ==
    /\ pc = "top" /\ LoopCondition
    /\ CancelObserved(ctxDone)
    /\ FailWith("cancelled_top")

(* top of a pass: GetSystemPrompt fails *)
TopPromptFail ==
    /\ pc = "top" /\ LoopCondition
    /\ ~CancelObserved(ctxDone)
    /\ FailWith("prompt_failed")

(* top of a pass: callback.BeforeModel fails *)
TopBeforeModelFail ==
    /\ pc = "top" /\ LoopCondition
    /\ ~CancelObserved(ctxDone)
    /\ hasCallback
    /\ FailWith("before_model_failed")

(* top of a pass: model.StreamComplete fails *)
TopStreamFail ==
    /\ pc = "top" /\ LoopCondition
    /\ ~CancelObserved(ctxDone)
    /\ Inject

(* top of a pass: the model stream is open, a new parser is made *)
TopOpenStream ==
    /\ pc = "top" /\ LoopCondition
    /\ ~CancelObserved(ctxDone)
    /\ pc' = "drain"
    /\ chunks' = 0
    /\ parser' = NewParser
    /\ reasoningSent' = FALSE
    /\ toolCall' = NoCall
    /\ turnEvents' = <<>>
    /\ UNCHANGED <<besidesProducer, iter, done, ctxDone, trippedInDrain,
                   errorEvents, lastEvent, closes, sentAfterClose, exitHow,
                   injected>>

(* the loop condition fails *)
LoopEnd ==
    /\ pc = "top" /\ ~LoopCondition
    /\ Send(ExhaustedEvents(done))
    /\ Return(IF done THEN "completed" ELSE "max_iterations")
    /\ UNCHANGED <<besidesProducer, iter, done, ctxDone, trippedInDrain, chunks,
                   parser, reasoningSent, toolCall, closes, injected>>

(* drain: a model reasoning chunk is received *)
DrainReasoning ==
    /\ pc = "drain"
    /\ chunks < MaxChunks
    /\ chunks' = chunks + 1
    /\ Send(<<ReasoningEvent(Thought)>>)
    /\ UNCHANGED <<besidesProducer, pc, iter, done, ctxDone, trippedInDrain,
                   parser, reasoningSent, toolCall, closes, exitHow, injected>>

(* drain: a usage chunk is received *)
DrainUsage ==
    /\ pc = "drain"
    /\ chunks < MaxChunks
    /\ chunks' = chunks + 1
    /\ UNCHANGED <<besidesProducer, pc, iter, done, ctxDone, trippedInDrain,
                   parser, reasoningSent, toolCall, turnEvents, errorEvents,
                   lastEvent, closes, sentAfterClose, exitHow, injected>>

(* drain: the model stream is closed before a tool call was completed *)
DrainClosed ==
    /\ pc = "drain"
    /\ Inject

(* the call the drain loop keeps for dispatch after a parse: the loop ends *)
(* as soon as one is kept                                                  *)
DispatchedTentative(res, cur) == IF res.call # NoCall THEN res.call ELSE cur

Dispatched(res, cur) == IF res.completed THEN res.call ELSE cur

(* drain: a text chunk is received, appended and parsed *)
DrainText ==
    /\ pc = "drain"
    /\ \E c \in TextChunks(variant, parser) :
          LET res == Parse(variant, ParserAppend(parser, c))
              es == ReasoningEvents(res.reasoning, reasoningSent) \o UseToolEvents(res)
          IN /\ (chunks < MaxChunks \/ c.to = 3)
             /\ chunks' = chunks + 1
             /\ parser' = res.parser
             /\ IF res.err
                THEN /\ Send(<<ErrorEvent>>)
                     /\ Return("decode_failed")
                     /\ UNCHANGED <<reasoningSent, toolCall>>
                ELSE /\ Send(es)
                     /\ reasoningSent' = (reasoningSent \/ res.reasoning # "")
                     /\ toolCall' = Dispatched(res, toolCall)
                     /\ pc' = IF Dispatched(res, toolCall) # NoCall
                              THEN "tool" ELSE "drain"
                     /\ UNCHANGED exitHow
    /\ UNCHANGED <<besidesProducer, iter, done, ctxDone, trippedInDrain, closes,
                   injected>>

(* drain: the select takes the ctx.Done() case *)
DrainDone ==
    /\ pc = "drain"
    /\ ctxDone
    /\ FailWith("cancelled_drain")

(* the registry of the producer's runner after complete_task was registered *)
ProducerRegistry ==
    RegisterTool([n \in AgentTools |-> AgentTool(n)],
                 NewCompleteTaskTool(OutputSchema)).tools

(* after the drain: callback.AfterModel fails *)
ProducerAfterModelFail ==
    /\ pc = "tool"
    /\ hasCallback
    /\ FailWith("after_model_failed")

(* after the drain: the tool of the call is not registered *)
ProducerToolNotFound ==
    /\ pc = "tool"
    /\ GetTool(ProducerRegistry, toolCall.name).err # "nil"
    /\ Inject

(* after the drain: callback.BeforeToolCall or callback.AfterToolCall fails *)
ProducerToolHookFail ==
    /\ pc = "tool"
    /\ hasCallback
    /\ GetTool(ProducerRegistry, toolCall.name).err = "nil"
    /\ \E how \in {"before_tool_failed", "after_tool_failed"} : FailWith(how)

(* after the drain: tool.Run fails *)
ProducerToolFail ==
    /\ pc = "tool"
    /\ GetTool(ProducerRegistry, toolCall.name).err = "nil"
    /\ Inject

(* after the drain: tool.Run succeeds *)
ProducerToolSuccess ==
    /\ pc = "tool"
    /\ GetTool(ProducerRegistry, toolCall.name).err = "nil"
    /\ pc' = "top"
    /\ iter' = iter + 1
    /\ done' = (toolCall.name = CompleteTaskToolName)
    /\ UNCHANGED <<besidesProducer, ctxDone, trippedInDrain, chunks, parser,
                   reasoningSent, toolCall, turnEvents, errorEvents, lastEvent,
                   closes, sentAfterClose, exitHow, injected>>

(* after the drain, JSON runner: json.Marshal of the tool output fails *)
ProducerMarshalFail ==
    /\ pc = "tool"
    /\ variant = "jsonStream"
    /\ GetTool(ProducerRegistry, toolCall.name).err = "nil"
    /\ toolCall.name # CompleteTaskToolName
    /\ FailWith("marshal_failed")

(* the goroutine has returned: its deferred calls run *)
DeferredClose ==
    /\ pc = "returning"
    /\ pc' = "done"
    /\ closes' = closes + Cardinality({k \in 1..Len(Deferred) : Deferred[k] = "close"})
    /\ UNCHANGED <<besidesProducer, iter, done, ctxDone, trippedInDrain, chunks,
                   parser, reasoningSent, toolCall, turnEvents, errorEvents,
                   lastEvent, sentAfterClose, exitHow, injected>>

ProducerNext ==
    \/ ProducerStart
    \/ CancelContext
    \/ TopCancelled
    \/ TopPromptFail
    \/ TopBeforeModelFail
    \/ TopStreamFail
    \/ TopOpenStream
    \/ LoopEnd
    \/ DrainReasoning
    \/ DrainUsage
    \/ DrainClosed
    \/ DrainText
    \/ DrainDone
    \/ ProducerAfterModelFail
    \/ ProducerToolNotFound
    \/ ProducerToolHookFail
    \/ ProducerToolFail
    \/ ProducerToolSuccess
    \/ ProducerMarshalFail
    \/ DeferredClose

SpecStream == ProducerInit /\ [][ProducerNext]_vars

ProducerTypeOK ==
    /\ pc \in {"idle", "top", "drain", "tool", "returning", "done"}
    /\ iter \in 0..maxIterations
    /\ chunks \in 0..(MaxChunks + 1)
    /\ closes \in 0..1
    /\ errorEvents \in Nat

(***************************************************************************)
(* C14: on every exit path of the producer the event channel is closed     *)
(* exactly once, when the producer has returned and so after its last      *)
(* send; it is not closed before, and nothing is sent on it once closed.   *)
(***************************************************************************)
C14_ClosedOnce ==
    /\ closes <= 1
    /\ (pc = "done") <=> (closes = 1)
    /\ ~sentAfterClose

(* the channel is closed after the marshal-failure exit *)
C14_Witness ==
    /\ pc = "done"
    /\ exitHow = "marshal_failed"
    /\ lastEvent = ErrorEvent
    /\ closes = 1

(***************************************************************************)
(* C15: when the context is cancelled while the producer drains the model  *)
(* stream, the producer sends exactly one error event, it is the last      *)
(* event of the run, and then the channel is closed.                       *)
(***************************************************************************)
C15_CancelInDrain ==
    (pc = "done" /\ trippedInDrain) =>
        /\ errorEvents = 1
        /\ lastEvent = ErrorEvent
        /\ closes = 1

(***************************************************************************)
(* C17: in a turn whose decoder yields a completed tool call the producer  *)
(* sends exactly one use-tool event with partial = false, it carries the   *)
(* completed call, and it comes after every partial use-tool event and     *)
(* every reasoning event of the turn.                                      *)
(***************************************************************************)
C17_CompletedUseToolEvent ==
    (pc = "tool" /\ toolCall # NoCall) =>
        LET final == {k \in 1..Len(turnEvents) :
                        turnEvents[k].type = "use_tool" /\ ~turnEvents[k].partial}
        IN /\ Cardinality(final) = 1
           /\ \A k \in final :
                 /\ turnEvents[k].call = toolCall
                 /\ \A j \in 1..Len(turnEvents) : j <= k

(***************************************************************************)
(* C18: in a turn of the XML streaming runner the reasoning decoded from   *)
(* the text before the <use-tool> tag is sent as a reasoning event at most *)
(* once, never when it is empty after trimming, and before every use-tool  *)
(* event of the turn.                                                      *)
(***************************************************************************)
C18_ReasoningOnce ==
    variant = "xmlStream" =>
        LET parsed == {k \in 1..Len(turnEvents) :
                           /\ turnEvents[k].type = "reasoning"
                           /\ turnEvents[k].text # Thought}
        IN /\ Cardinality(parsed) <= 1
           /\ \A k \in parsed :
                 /\ turnEvents[k].text # ""
                 /\ turnEvents[k].text = TrimSpace(parser.pre)
                 /\ \A j \in 1..(k - 1) : turnEvents[j].type # "use_tool"

(* the reasoning was sent once, before two partial use-tool events *)
C18_Witness ==
    /\ variant = "xmlStream"
    /\ pc = "drain"
    /\ reasoningSent
    /\ turnEvents = <<ReasoningEvent("R"),
                      UseToolEvent(DecodedCall("echo", PartialInput), TRUE),
                      UseToolEvent(DecodedCall("echo", PartialInput), TRUE)>>

(***************************************************************************)
(* C19: a streaming run sends at most one error event; once it is sent the *)
(* producer returns, so it is the last event before the close; a run that  *)
(* complete_task ended sends none, and a pass that injected a recoverable  *)
(* failure into the history goes on without having sent one.               *)
(***************************************************************************)
C19_OneTerminalEvent ==
    /\ errorEvents <= 1
    /\ errorEvents = 1 => (lastEvent = ErrorEvent /\ pc \in {"returning", "done"})
    /\ done => errorEvents = 0
    /\ pc \in {"top", "drain", "tool"} => errorEvents = 0

(* two injected failures use up the iterations: one error event, the last *)
C19_Witness ==
    /\ pc = "done"
    /\ exitHow = "max_iterations"
    /\ injected = 2
    /\ errorEvents = 1
    /\ lastEvent = ErrorEvent
    /\ closes = 1

(***************************************************************************)
(* The tool registry on its own: callers register, unregister, look up and *)
(* list tools, one operation at a time (each runs under the registry's     *)
(* lock), and may write to a slice that GetTools returned.                 *)
(***************************************************************************)
RegistryNames == {"echo", "search"}

(* tools a caller may pass: two different tools for every name *)
RegistryTools == [name : RegistryNames, schema : {"v1", "v2"}]

(* what happens to the slice returned last when the registry changes *)
ListedAfter(reg) == IF listed.own THEN listed ELSE [listed EXCEPT !.items = GetTools(reg)]

RegistryInit ==
    /\ RunIdle
    /\ CompactionIdle
    /\ ProducerIdle
    /\ RegistryOpsIdle
    /\ RunsIdle
    /\ TasksIdle
    /\ JsonDecoderIdle
    /\ XmlDecoderIdle
    /\ HooksIdle
    /\ PairIdle
    /\ ChannelIdle
    /\ ConcurrentIdle

RegistryRegister ==
    /\ \E tool \in RegistryTools :
          LET r == RegisterTool(registry, tool)
          IN /\ registry' = r.tools
             /\ opResult' = [op |-> "register", name |-> tool.name, err |-> r.err,
                             tool |-> tool]
             /\ listed' = ListedAfter(r.tools)
    /\ UNCHANGED besidesRegistry

RegistryUnregister ==
    /\ \E name \in RegistryNames :
          LET r == UnregisterTool(registry, name)
          IN /\ registry' = r.tools
             /\ opResult' = [op |-> "unregister", name |-> name, err |-> r.err,
                             tool |-> NoTool]
             /\ listed' = ListedAfter(r.tools)
    /\ UNCHANGED besidesRegistry

RegistryGet ==
    /\ \E name \in RegistryNames :
          LET r == GetTool(registry, name)
          IN opResult' = [op |-> "get", name |-> name, err |-> r.err, tool |-> r.tool]
    /\ UNCHANGED <<besidesRegistry, registry, listed>>

RegistryList ==
    /\ listed' = MakeSlice(GetTools(registry))
    /\ opResult' = [NoOp EXCEPT !.op = "list"]
    /\ UNCHANGED <<besidesRegistry, registry>>

(* the caller removes an element from the slice it was given *)
WriteListed ==
    /\ \E t \in listed.items :
          /\ listed' = [listed EXCEPT !.items = @ \ {t}]
          /\ registry' = IF listed.own THEN registry
                         ELSE [n \in DOMAIN registry \ {t.name} |-> registry[n]]
    /\ opResult' = [NoOp EXCEPT !.op = "write"]
    /\ UNCHANGED besidesRegistry

RegistryNext ==
    \/ RegistryRegister
    \/ RegistryUnregister
    \/ RegistryGet
    \/ RegistryList
    \/ WriteListed

SpecRegistry == RegistryInit /\ [][RegistryNext]_vars

(***************************************************************************)
(* C20: register fails with AlreadyRegistered and changes nothing when the *)
(* name is taken, and adds the tool otherwise; unregister and get fail     *)
(* with NotFound and change nothing when the name is absent; no two        *)
(* registered tools have the same name; GetTools returns the registered    *)
(* tools in a slice that later operations do not change and whose          *)
(* modification does not change the registry.                              *)
(***************************************************************************)
C20_RegistryOps ==
    [][ LET o == opResult'
        IN /\ o.op = "register" =>
                IF o.name \in DOMAIN registry
                THEN o.err = "already registered" /\ registry' = registry
                ELSE /\ o.err = "nil"
                     /\ DOMAIN registry' = DOMAIN registry \cup {o.name}
                     /\ registry'[o.name] = o.tool
                     /\ \A n \in DOMAIN registry : registry'[n] = registry[n]
           /\ (o.op \in {"unregister", "get"} /\ o.name \notin DOMAIN registry) =>
                (o.err = "not found" /\ registry' = registry)
           /\ (o.op = "unregister" /\ o.name \in DOMAIN registry) =>
                (o.err = "nil" /\ DOMAIN registry' = DOMAIN registry \ {o.name})
           /\ (o.op = "get" /\ o.name \in DOMAIN registry) =>
                (o.err = "nil" /\ o.tool = registry[o.name] /\ registry' = registry)
           /\ \A a, b \in GetTools(registry') : a.name = b.name => a = b
           /\ o.op = "list" => (listed'.items = GetTools(registry) /\ registry' = registry)
           /\ o.op \in {"register", "unregister", "get"} => listed' = listed
           /\ o.op = "write" => registry' = registry ]_vars

(* a second tool under a taken name was refused; the slice listed before   *)
(* echo was registered still holds the search tool alone                   *)
C20_Witness ==
    /\ opResult = [op |-> "register", name |-> "echo", err |-> "already registered",
                   tool |-> [name |-> "echo", schema |-> "v2"]]
    /\ DOMAIN registry = {"echo", "search"}
    /\ registry["echo"] = [name |-> "echo", schema |-> "v1"]
    /\ listed = MakeSlice({registry["search"]})

(***************************************************************************)
(* C24: an error returned by a lifecycle hook (before-model, after-model,  *)
(* before-tool, after-tool) never ends the run: it is injected as a        *)
(* user-role error message, counted, and the run goes on.                  *)
(***************************************************************************)
C24_HookErrorsRecoverable ==
    /\ outcome # "callback_failed"
    /\ (outcome = "running" /\ Len(calls) > 0
           /\ calls[Len(calls)] \in {"BeforeModel", "AfterModel", "BeforeToolCall"})
          => (lastAppended.role = "user" /\ failsSince >= 1)

(***************************************************************************)
(* C25: the blocking runners never invoke the before-tool and after-tool   *)
(* hooks for a complete_task call and invoke them for every other tool     *)
(* they run; the streaming runners invoke them for every tool they run.    *)
(***************************************************************************)
C25_ToolHooks ==
    /\ (variant \in Blocking /\ decoded.name = CompleteTaskToolName) =>
          (~Called("BeforeToolCall") /\ ~Called("AfterToolCall"))
    /\ (hasCallback /\ Called("Tool")
           /\ (variant \in Streaming \/ decoded.name # CompleteTaskToolName)) =>
          Called("BeforeToolCall")

(***************************************************************************)
(* C26: a request with no message, with max-iterations <= 0 or with a last *)
(* message that is not a user message is rejected by every runner before   *)
(* the loop: no model, hook or tool is invoked, the history stays empty,   *)
(* complete_task is not registered and no event channel is made.           *)
(***************************************************************************)
C26_InvalidRejected ==
    ( \/ Len(reqMessages) = 0
      \/ maxIterations <= 0
      \/ reqMessages[Len(reqMessages)].role # "user" ) =>
        /\ outcome \in {"init", "invalid_request"}
        /\ calls = <<>>
        /\ prompts = NoPrompt
        /\ messages = <<>>
        /\ toolCalls = <<>>
        /\ registry = [n \in AgentTools |-> AgentTool(n)]
        /\ eventChan = "none"

(* a streaming runner has rejected a request that ends with an assistant   *)
(* message                                                                 *)
C26_Witness ==
    /\ variant \in Streaming
    /\ outcome = "invalid_request"
    /\ Len(reqMessages) = 2
    /\ maxIterations > 0
    /\ reqMessages[2].role = "assistant"

(***************************************************************************)
(* Several runs on one runner.  NewJSONCompletionRunner fills the registry *)
(* with agent.Tools once; every Run call then registers a complete_task    *)
(* tool made from its own request and discards what RegisterTool returns.  *)
(***************************************************************************)
MaxRuns == 2

Schemas == {"S1", "S2"}

(* agent.Tools may hold a tool of any name: Agent.Validate looks at none   *)
AgentToolSets == SUBSET {"echo", "search", CompleteTaskToolName}

(* the error of RegisterTool as Run treats it *)
PropagateError(err) == err

IgnoreError(err) == "nil"

RunsInit ==
    /\ agentToolNames \in AgentToolSets
    /\ toolRegistry = [n \in agentToolNames |-> AgentTool(n)]
    /\ runCount = 0
    /\ started = 0
    /\ reqOutputSchema = ""
    /\ runPhase = "idle"
    /\ runError = "nil"
    /\ registerErr = "nil"
    /\ catalog = {}
    /\ dispatched = NoTool
    /\ RunIdle
    /\ CompactionIdle
    /\ ProducerIdle
    /\ RegistryOpsIdle
    /\ TasksIdle
    /\ JsonDecoderIdle
    /\ XmlDecoderIdle
    /\ HooksIdle
    /\ PairIdle
    /\ ChannelIdle
    /\ ConcurrentIdle

(* Run is called: validation, then the registration of complete_task *)
RunBegin ==
    /\ runPhase \in {"idle", "returned"}
    /\ runCount < MaxRuns
    /\ runCount' = runCount + 1
    /\ catalog' = {}
    /\ dispatched' = NoTool
    /\ \E msgs \in RequestMessages, maxIt \in 0..1, schema \in Schemas :
          /\ reqOutputSchema' = schema
          /\ IF Validate(msgs, maxIt) # "ok"
             THEN /\ runError' = "invalid_request"
                  /\ runPhase' = "returned"
                  /\ UNCHANGED <<toolRegistry, registerErr, started>>
             ELSE LET r == RegisterTool(toolRegistry, NewCompleteTaskTool(schema))
                  IN /\ toolRegistry' = r.tools
                     /\ registerErr' = r.err
                     /\ runError' = IgnoreError(r.err)
                     /\ started' = started + 1
                     /\ runPhase' = IF IgnoreError(r.err) = "nil"
                                    THEN "running" ELSE "returned"
    /\ UNCHANGED <<agentToolNames, besidesRuns>>

(* a pass of the loop assembles the prompt from the registry *)
RunPrompt ==
    /\ runPhase = "running"
    /\ catalog' = GetTools(toolRegistry)
    /\ UNCHANGED <<toolRegistry, agentToolNames, runCount, started, reqOutputSchema,
                   runPhase, runError, registerErr, dispatched, besidesRuns>>

(* the model calls complete_task: the tool is looked up and the run ends *)
RunComplete ==
    /\ runPhase = "running"
    /\ catalog # {}
    /\ dispatched' = GetTool(toolRegistry, CompleteTaskToolName).tool
    /\ runPhase' = "returned"
    /\ UNCHANGED <<toolRegistry, agentToolNames, runCount, started, reqOutputSchema,
                   runError, registerErr, catalog, besidesRuns>>

(* the loop runs out of iterations: a response without output is returned *)
RunExhausted ==
    /\ runPhase = "running"
    /\ catalog # {}
    /\ runPhase' = "returned"
    /\ UNCHANGED <<toolRegistry, agentToolNames, runCount, started, reqOutputSchema,
                   runError, registerErr, catalog, dispatched, besidesRuns>>

RunsNext ==
    \/ RunBegin
    \/ RunPrompt
    \/ RunComplete
    \/ RunExhausted

SpecRuns == RunsInit /\ [][RunsNext]_vars

(***************************************************************************)
(* C22: registering complete_task at the start of a run is idempotent:     *)
(* after any number of runs on one runner the registry holds the agent's   *)
(* tools, each as the agent gave it, and one complete_task besides, and    *)
(* the refused second registration never ends a run: a request that passes *)
(* validation is running until its loop ends.                              *)
(***************************************************************************)
C22_RegistrationIdempotent ==
    /\ runError # "already registered"
    /\ \A n \in agentToolNames :
          n \in DOMAIN toolRegistry /\ toolRegistry[n] = AgentTool(n)
    /\ DOMAIN toolRegistry =
          IF started > 0 THEN agentToolNames \cup {CompleteTaskToolName}
          ELSE agentToolNames
    /\ (runPhase = "returned" /\ catalog = {}) => runError = "invalid_request"

(* the second run on a runner is under way although its registration of    *)
(* complete_task was refused                                               *)
C22_Witness ==
    /\ started = 2
    /\ runPhase = "running"
    /\ registerErr = "already registered"
    /\ catalog # {}

(***************************************************************************)
(* C23: during every run, also a later run with another output schema, the *)
(* complete_task tool of the registry and of the prompt's catalog has the  *)
(* output schema of that run's request as its input schema.                *)
(***************************************************************************)
C23_CompleteTaskSchema ==
    runPhase = "running" =>
        /\ toolRegistry[CompleteTaskToolName].schema = reqOutputSchema
        /\ \A t \in catalog :
              t.name = CompleteTaskToolName => t.schema = reqOutputSchema

(***************************************************************************)
(* Concurrent callers of one registry.  Every task calls the operations of *)
(* ToolRegistry one after another; a step is one statement of the          *)
(* operation: taking tr.mu, the test of the map, the write to the map, the *)
(* copy of one element, the deferred release of tr.mu.                     *)
(***************************************************************************)
MaxOps == 2

Tasks == {1, 2}

Ops == {[op |-> "register", name |-> tl.name, tool |-> tl] : tl \in RegistryTools}
           \cup [op : {"unregister", "get"}, name : RegistryNames, tool : {NoTool}]
           \cup [op : {"list"}, name : {""}, tool : {NoTool}]

Writes == {"register", "unregister"}

(* sync.RWMutex: Lock waits for the writer and all readers to leave, RLock *)
(* waits for the writer only                                               *)
CanLockAlways(w, rs) == TRUE

CanLock(w, rs) == w = 0 /\ rs = {}

CanRLock(w, rs) == w = 0

TaskIdle ==
    [pc |-> "idle", op |-> "none", name |-> "", tool |-> NoTool, exists |-> FALSE,
     todo |-> {}, out |-> {}, err |-> "nil", got |-> NoTool, n |-> 0,
     atCall |-> <<>>, atLock |-> <<>>, atWrite |-> <<>>, after |-> <<>>,
     during |-> {}]

TasksInit ==
    /\ trTools \in {<<>>, [n \in {"echo"} |-> [name |-> "echo", schema |-> "v1"]]}
    /\ muWriter = 0
    /\ muReaders = {}
    /\ task = [t \in Tasks |-> TaskIdle]
    /\ RunIdle
    /\ CompactionIdle
    /\ ProducerIdle
    /\ RegistryOpsIdle
    /\ RunsIdle
    /\ JsonDecoderIdle
    /\ XmlDecoderIdle
    /\ HooksIdle
    /\ PairIdle
    /\ ChannelIdle
    /\ ConcurrentIdle

(* task t calls an operation *)
TaskCall(t) ==
    /\ task[t].pc = "idle"
    /\ task[t].n < MaxOps
    /\ \E o \in Ops :
          task' = [u \in Tasks |->
                     IF u = t
                     THEN [TaskIdle EXCEPT !.pc = "lock", !.op = o.op, !.name = o.name,
                                           !.tool = o.tool,
                                           !.n = task[t].n,
                                           !.atCall = trTools,
                                           !.during = {v \in Tasks \ {t} :
                                                          task[v].pc # "idle"}]
                     ELSE [task[u] EXCEPT !.during = IF task[u].pc # "idle"
                                                     THEN @ \cup {t} ELSE @ \ {t}]]
    /\ UNCHANGED <<trTools, muWriter, muReaders, besidesTasks>>

(* tr.mu.Lock() of RegisterTool and UnregisterTool *)
TaskLock(t) ==
    /\ task[t].pc = "lock"
    /\ task[t].op \in Writes
    /\ CanLock(muWriter, muReaders)
    /\ muWriter' = t
    /\ task' = [task EXCEPT ![t] = [@ EXCEPT !.pc = "check", !.atLock = trTools]]
    /\ UNCHANGED <<trTools, muReaders, besidesTasks>>

(* tr.mu.RLock() of GetTool and GetTools; GetTools sizes its slice *)
TaskRLock(t) ==
    /\ task[t].pc = "lock"
    /\ task[t].op \notin Writes
    /\ CanRLock(muWriter, muReaders)
    /\ muReaders' = muReaders \cup {t}
    /\ task' = [task EXCEPT ![t] =
                  [@ EXCEPT !.pc = IF task[t].op = "get" THEN "read" ELSE "copy",
                            !.atLock = trTools,
                            !.todo = IF task[t].op = "list" THEN DOMAIN trTools ELSE {}]]
    /\ UNCHANGED <<trTools, muWriter, besidesTasks>>

(* _, exists := tr.tools[name] *)
TaskCheck(t) ==
    /\ task[t].pc = "check"
    /\ task' = [task EXCEPT ![t] =
                  [@ EXCEPT !.pc = "write", !.exists = task[t].name \in DOMAIN trTools]]
    /\ UNCHANGED <<trTools, muWriter, muReaders, besidesTasks>>

(* the return of the error, or tr.tools[name] = tool, or delete *)
TaskWrite(t) ==
    /\ task[t].pc = "write"
    /\ LET me == task[t]
           fails == IF me.op = "register" THEN me.exists ELSE ~me.exists
           written == IF fails THEN trTools
                      ELSE IF me.op = "register"
                      THEN [n \in DOMAIN trTools \cup {me.name} |->
                              IF n = me.name THEN me.tool ELSE trTools[n]]
                      ELSE [n \in DOMAIN trTools \ {me.name} |-> trTools[n]]
       IN /\ trTools' = written
          /\ task' = [task EXCEPT ![t] =
                        [@ EXCEPT !.pc = "unlock",
                                  !.err = IF ~fails THEN "nil"
                                          ELSE IF me.op = "register"
                                          THEN "already registered" ELSE "not found",
                                  !.atWrite = trTools,
                                  !.after = written]]
    /\ UNCHANGED <<muWriter, muReaders, besidesTasks>>

(* tool, exists := tr.tools[name] of GetTool *)
TaskRead(t) ==
    /\ task[t].pc = "read"
    /\ LET r == GetTool(trTools, task[t].name)
       IN task' = [task EXCEPT ![t] =
                     [@ EXCEPT !.pc = "unlock", !.got = r.tool, !.err = r.err]]
    /\ UNCHANGED <<trTools, muWriter, muReaders, besidesTasks>>

(* one pass of the range loop of GetTools, in any order; the loop ends     *)
(* when no element is left                                                 *)
TaskCopy(t) ==
    /\ task[t].pc = "copy"
    /\ IF task[t].todo = {}
       THEN task' = [task EXCEPT ![t] = [@ EXCEPT !.pc = "unlock"]]
       ELSE \E n \in task[t].todo :
               task' = [task EXCEPT ![t] =
                          [@ EXCEPT !.todo = @ \ {n},
                                    !.out = IF n \in DOMAIN trTools
                                            THEN @ \cup {trTools[n]} ELSE @]]
    /\ UNCHANGED <<trTools, muWriter, muReaders, besidesTasks>>

(* the deferred Unlock or RUnlock; the operation returns *)
TaskUnlock(t) ==
    /\ task[t].pc = "unlock"
    /\ IF task[t].op \in Writes
       THEN muWriter' = 0 /\ UNCHANGED muReaders
       ELSE muReaders' = muReaders \ {t} /\ UNCHANGED muWriter
    /\ task' = [task EXCEPT ![t] = [@ EXCEPT !.pc = "idle", !.n = @ + 1]]
    /\ UNCHANGED <<trTools, besidesTasks>>

TasksNext ==
    \E t \in Tasks :
        \/ TaskCall(t)
        \/ TaskLock(t)
        \/ TaskRLock(t)
        \/ TaskCheck(t)
        \/ TaskWrite(t)
        \/ TaskRead(t)
        \/ TaskCopy(t)
        \/ TaskUnlock(t)

SpecTasks == TasksInit /\ [][TasksNext]_vars

(* task t has returned from an operation *)
Returned(t) == task[t].pc = "idle" /\ task[t].op # "none"

(***************************************************************************)
(* C21: under every interleaving each registry operation takes effect      *)
(* atomically: what it returns and what it leaves in the map is what the   *)
(* operation run alone does to the map as it was when the task took the    *)
(* lock, and the map is still that map when the task writes; of two        *)
(* overlapping registrations of a name that was free when both were called *)
(* exactly one succeeds and the other fails with AlreadyRegistered; a get  *)
(* or a list returns the content of the map as it was before or after a    *)
(* write, never a mixture.                                                 *)
(***************************************************************************)
C21_AtomicOperations ==
    /\ \A t \in Tasks : Returned(t) =>
          LET me == task[t] IN
          CASE me.op = "register" ->
                  /\ me.atWrite = me.atLock
                  /\ me.err = RegisterTool(me.atLock, me.tool).err
                  /\ me.after = RegisterTool(me.atLock, me.tool).tools
            [] me.op = "unregister" ->
                  /\ me.atWrite = me.atLock
                  /\ me.err = UnregisterTool(me.atLock, me.name).err
                  /\ me.after = UnregisterTool(me.atLock, me.name).tools
            [] me.op = "get" ->
                  /\ me.got = GetTool(me.atLock, me.name).tool
                  /\ me.err = GetTool(me.atLock, me.name).err
            [] me.op = "list" -> me.out = GetTools(me.atLock)
    /\ \A t, u \in Tasks :
          ( /\ t # u /\ Returned(t) /\ Returned(u) /\ u \in task[t].during
            /\ task[t].op = "register" /\ task[u].op = "register"
            /\ task[t].name = task[u].name
            /\ task[t].name \notin DOMAIN task[t].atCall
            /\ task[t].name \notin DOMAIN task[u].atCall ) =>
              {task[t].err, task[u].err} = {"nil", "already registered"}

(* two overlapping registrations of one free name have returned, and the   *)
(* task that took the lock second was refused                              *)
C21_Witness ==
    /\ Returned(1) /\ Returned(2) /\ 2 \in task[1].during
    /\ task[1].op = "register" /\ task[2].op = "register"
    /\ task[1].name = "search" /\ task[2].name = "search"
    /\ task[1].tool # task[2].tool
    /\ "search" \notin DOMAIN task[1].atCall \cup DOMAIN task[2].atCall
    /\ task[1].err = "already registered"
    /\ trTools["search"] = task[2].tool

(***************************************************************************)
(* C30: in a streaming run a tool is dispatched only for a call the        *)
(* decoder reported with completed = true: the lookup, the hooks and the   *)
(* tool see the completed call and never a tentative one, the drain loop   *)
(* takes no chunk after the first completed call, and an iteration runs at *)
(* most one tool: the step that dispatches ends the iteration or the run.  *)
(***************************************************************************)
C30_OnlyCompletedDispatched ==
    /\ [](pc = "tool" =>
             /\ Parse(variant, parser).completed
             /\ toolCall = Parse(variant, parser).call
             /\ toolCall.input = FinalInput)
    /\ [](pc = "drain" => toolCall = NoCall /\ ~Parse(variant, parser).completed)
    /\ [][(pc' = "tool" /\ pc # "tool") => pc = "drain"]_vars
    /\ [][(pc = "tool" /\ pc' # "tool") =>
             \/ pc' = "returning"
             \/ pc' = "top" /\ iter' = iter + 1]_vars

(* a completed call is about to be dispatched in a turn in which a         *)
(* tentative call was announced first                                      *)
C30_Witness ==
    /\ pc = "tool"
    /\ toolCall.input = FinalInput
    /\ \E k \in 1..Len(turnEvents) :
          /\ turnEvents[k].type = "use_tool"
          /\ turnEvents[k].partial
          /\ turnEvents[k].call.input = PartialInput

(***************************************************************************)
(* The JSON tool-call decoder, character by character.  A text is a        *)
(* sequence of one-character strings.  The incremental parser sees tokens: *)
(* a string counts once its closing quote has arrived, an object is        *)
(* attached to its parent when its opening brace arrives.                  *)
(***************************************************************************)
MaxExtra == 1

Quote == "\""

Whitespace == {" ", "\n"}

KeyName == <<"n", "a", "m", "e">>

KeyInput == <<"i", "n", "p", "u", "t">>

(* JSON values: nothing, a string, an object *)
Nil == [t |-> "nil", v |-> <<>>]

StringValue(chars) == [t |-> "s", v |-> chars]

ObjectValue(fields) == [t |-> "o", v |-> fields]

Put(fields, key, val) ==
    [k \in DOMAIN fields \cup {key} |-> IF k = key THEN val ELSE fields[k]]

(* ---- what the model writes ---- *)
Member(key, val) == [k |-> key, v |-> val]

(* the members of the input objects the model may write *)
InputMembers == { <<>>, <<Member(<<"k">>, <<"v">>)>>,
                  <<Member(<<"k">>, <<"v">>), Member(<<"q">>, <<>>)>> }

RECURSIVE FieldsOf(_)
FieldsOf(members) ==
    IF members = <<>> THEN <<>>
    ELSE LET m == members[Len(members)]
         IN Put(FieldsOf(SubSeq(members, 1, Len(members) - 1)), m.k, StringValue(m.v))

MarshalString(chars) == <<Quote>> \o chars \o <<Quote>>

RECURSIVE MarshalMembers(_)
MarshalMembers(members) ==
    IF members = <<>> THEN <<>>
    ELSE LET m == members[1]
         IN MarshalString(m.k) \o <<":">> \o MarshalString(m.v)
               \o (IF Len(members) > 1 THEN <<",">> ELSE <<>>)
               \o MarshalMembers(Tail(members))

MarshalObject(members) == <<"{">> \o MarshalMembers(members) \o <<"}">>

(* a tool call, and no tool call *)
ToolCallOf(name, input) == [nil |-> FALSE, name |-> name, input |-> input]

NilToolCall == [nil |-> TRUE, name |-> <<>>, input |-> <<>>]

ToolCallValues == [name : {<<"a">>, <<"b", "c">>}, members : InputMembers]

(* the serialized tool call, with either field first *)
MarshalToolCall(v, nameFirst) ==
    LET name == MarshalString(KeyName) \o <<":">> \o MarshalString(v.name)
        input == MarshalString(KeyInput) \o <<":">> \o MarshalObject(v.members)
    IN <<"{">> \o (IF nameFirst THEN name \o <<",">> \o input
                   ELSE input \o <<",">> \o name) \o <<"}">>

(* ---- the incremental parser ---- *)
NewStreamJSONParser ==
    [stack |-> <<>>, phase |-> "value0", inStr |-> FALSE, str |-> <<>>,
     root |-> Nil, trailing |-> FALSE]

(* a closing brace: the object leaves the stack *)
CloseObject(st) ==
    LET top == Len(st.stack)
    IN IF top = 1
       THEN [st EXCEPT !.stack = <<>>,
                       !.root = ObjectValue(st.stack[1].fields),
                       !.phase = "done"]
       ELSE [st EXCEPT !.stack = [SubSeq(st.stack, 1, top - 1) EXCEPT
                                     ![top - 1].fields =
                                        Put(@, st.stack[top - 1].key,
                                            ObjectValue(st.stack[top].fields))],
                       !.phase = "comma"]

(* one character arrives *)
Feed(st, ch) ==
    LET top == Len(st.stack)
    IN IF st.phase = "bad" THEN st
       ELSE IF st.inStr
       THEN IF ch # Quote THEN [st EXCEPT !.str = Append(@, ch)]
            ELSE IF st.phase \in {"key0", "key"}
            THEN [st EXCEPT !.inStr = FALSE, !.stack[top].key = st.str,
                            !.phase = "colon"]
            ELSE IF st.phase = "value"
            THEN [st EXCEPT !.inStr = FALSE,
                            !.stack[top].fields =
                               Put(@, st.stack[top].key, StringValue(st.str)),
                            !.phase = "comma"]
            ELSE [st EXCEPT !.inStr = FALSE, !.root = StringValue(st.str),
                            !.phase = "done"]
       ELSE IF ch \in Whitespace THEN st
       ELSE IF st.phase = "done" THEN [st EXCEPT !.trailing = TRUE]
       ELSE IF ch = Quote /\ st.phase \in {"key0", "key", "value", "value0"}
       THEN [st EXCEPT !.inStr = TRUE, !.str = <<>>]
       ELSE IF ch = "{" /\ st.phase \in {"value", "value0"}
       THEN [st EXCEPT !.stack = Append(@, [key |-> <<>>, fields |-> <<>>]),
                       !.phase = "key0"]
       ELSE IF ch = "}" /\ st.phase \in {"key0", "comma"} THEN CloseObject(st)
       ELSE IF ch = ":" /\ st.phase = "colon" THEN [st EXCEPT !.phase = "value"]
       ELSE IF ch = "," /\ st.phase = "comma" THEN [st EXCEPT !.phase = "key"]
       ELSE [st EXCEPT !.phase = "bad"]

RECURSIVE FeedAll(_, _)
FeedAll(st, chars) ==
    IF st.phase = "bad" \/ chars = <<>> THEN st
    ELSE FeedAll(Feed(st, Head(chars)), Tail(chars))

(* the fields of the top-level object as parsed so far: an open object is  *)
(* seen under the key it is the value of                                   *)
RECURSIVE Collapse(_)
Collapse(stack) ==
    LET top == Len(stack)
    IN IF top = 1 THEN stack[1].fields
       ELSE Collapse([SubSeq(stack, 1, top - 1) EXCEPT
                         ![top - 1].fields =
                            Put(@, stack[top - 1].key, ObjectValue(stack[top].fields))])

TopLevel(st) ==
    IF st.phase = "done" THEN (IF st.root.t = "o" THEN st.root.v ELSE <<>>)
    ELSE IF st.stack = <<>> THEN <<>>
    ELSE Collapse(st.stack)

(* parser.Get(key): the tentative value of a top-level field *)
Get(st, key) == IF key \in DOMAIN TopLevel(st) THEN TopLevel(st)[key] ELSE Nil

(* parser.IsCompleted(): the input has formed a complete JSON value *)
IsCompleted(st) == st.phase = "done"

(* json.Unmarshal(buffer, &toolCall): the whole text is one object *)
Unmarshal(chars) ==
    LET st == FeedAll(NewStreamJSONParser, chars)
        name == Get(st, KeyName)
        input == Get(st, KeyInput)
    IN IF st.phase # "done" \/ st.trailing \/ st.root.t # "o"
          \/ name.t = "o" \/ input.t = "s"
       THEN [err |-> TRUE, call |-> NilToolCall]
       ELSE [err |-> FALSE, call |-> ToolCallOf(name.v, input.v)]

(* ---- ToolCallJsonParser ---- *)
AppendBufferLast(buffer, content) == content

AppendBuffer(buffer, content) == buffer \o content

NoParse == [call |-> NilToolCall, completed |-> FALSE, err |-> "nil", at |-> 0 - 1]

(* ToolCallJsonParser.Parse; a failed type assertion panics *)
ParseJson(buffer, st) ==
    IF IsCompleted(st)
    THEN LET u == Unmarshal(buffer)
         IN IF u.err
            THEN [call |-> NilToolCall, completed |-> FALSE, err |-> "error",
                  at |-> Len(buffer)]
            ELSE [call |-> u.call, completed |-> TRUE, err |-> "nil", at |-> Len(buffer)]
    ELSE LET toolName == Get(st, KeyName)
             input == Get(st, KeyInput)
         IN IF toolName.t # "nil" /\ input.t # "nil"
            THEN IF toolName.t = "s" /\ input.t = "o"
                 THEN [call |-> ToolCallOf(toolName.v, input.v), completed |-> FALSE,
                       err |-> "nil", at |-> Len(buffer)]
                 ELSE [call |-> NilToolCall, completed |-> FALSE, err |-> "panic",
                       at |-> Len(buffer)]
            ELSE [call |-> NilToolCall, completed |-> FALSE, err |-> "nil",
                  at |-> Len(buffer)]

(* what a caller appends once the document is through *)
Trailing == {<<"x">>, <<" ">>}

JsonInit ==
    /\ jsonValue \in ToolCallValues
    /\ \E nameFirst \in BOOLEAN : jsonDoc = MarshalToolCall(jsonValue, nameFirst)
    /\ jsonFed = 0
    /\ jsonExtra = 0
    /\ jsonBuffer = <<>>
    /\ jsonParser = NewStreamJSONParser
    /\ jsonParsed = NoParse
    /\ jsonEver = [completed |-> FALSE, named |-> FALSE, name |-> <<>>,
                   tentative |-> FALSE, appends |-> 0]
    /\ RunIdle
    /\ CompactionIdle
    /\ ProducerIdle
    /\ RegistryOpsIdle
    /\ RunsIdle
    /\ TasksIdle
    /\ XmlDecoderIdle
    /\ HooksIdle
    /\ PairIdle
    /\ ChannelIdle
    /\ ConcurrentIdle

(* Append(content) *)
JsonAppendContent(content) ==
    /\ jsonBuffer' = AppendBuffer(jsonBuffer, content)
    /\ jsonParser' = FeedAll(jsonParser, content)
    /\ jsonEver' = [jsonEver EXCEPT !.appends = IF @ < 3 THEN @ + 1 ELSE @]
    /\ UNCHANGED <<jsonValue, jsonDoc, jsonParsed, besidesJsonDecoder>>

(* the next fragment of the document, of any length *)
JsonAppend ==
    /\ jsonFed < Len(jsonDoc)
    /\ \E k \in 1..(Len(jsonDoc) - jsonFed) :
          /\ jsonFed' = jsonFed + k
          /\ JsonAppendContent(SubSeq(jsonDoc, jsonFed + 1, jsonFed + k))
    /\ UNCHANGED jsonExtra

(* a fragment after the document *)
JsonAppendTrailing ==
    /\ jsonFed = Len(jsonDoc)
    /\ jsonExtra < MaxExtra
    /\ jsonExtra' = jsonExtra + 1
    /\ \E content \in Trailing : JsonAppendContent(content)
    /\ UNCHANGED jsonFed

(* Parse() *)
JsonParse ==
    /\ jsonParsed.at # Len(jsonBuffer)
    /\ LET res == ParseJson(jsonBuffer, jsonParser)
       IN /\ jsonParsed' = res
          /\ jsonEver' = [jsonEver EXCEPT
                            !.completed = @ \/ res.completed,
                            !.tentative = @ \/ (~res.completed /\ ~res.call.nil),
                            !.named = @ \/ ~res.call.nil,
                            !.name = IF ~jsonEver.named /\ ~res.call.nil
                                     THEN res.call.name ELSE @]
    /\ UNCHANGED <<jsonValue, jsonDoc, jsonFed, jsonExtra, jsonBuffer, jsonParser,
                   besidesJsonDecoder>>

JsonNext ==
    \/ JsonAppend
    \/ JsonAppendTrailing
    \/ JsonParse

SpecJson == JsonInit /\ [][JsonNext]_vars

(***************************************************************************)
(* C27: the JSON decoder makes monotonic progress over any sequence of     *)
(* appends and parses: once Parse has returned a call with a name, every   *)
(* later Parse returns a call with that name, and once Parse has reported  *)
(* completed = true every later Parse reports completed = true, also after *)
(* further fragments.                                                      *)
(***************************************************************************)
C27_MonotonicProgress ==
    /\ jsonEver.named =>
          (~jsonParsed.call.nil /\ jsonParsed.call.name = jsonEver.name)
    /\ jsonEver.completed => jsonParsed.completed

UseTool == <<"u", "s", "e", "-", "t", "o", "o", "l">>

RECURSIVE TrimLeft(_)
TrimLeft(chars) ==
    IF chars # <<>> /\ Head(chars) \in Whitespace THEN TrimLeft(Tail(chars)) ELSE chars

RECURSIVE TrimRight(_)
TrimRight(chars) ==
    IF chars # <<>> /\ chars[Len(chars)] \in Whitespace
    THEN TrimRight(SubSeq(chars, 1, Len(chars) - 1)) ELSE chars

(* strings.TrimSpace *)
TrimSpaceOf(chars) == TrimRight(TrimLeft(chars))

(* ---- what the model writes ---- *)
ReasoningTexts == {<<>>, <<" ", "h", "i", "\n">>}

XmlTurns == [reasoning : ReasoningTexts, name : {<<"a">>, <<"b", "c">>},
             members : InputMembers, padded : BOOLEAN]

OpenTag(name) ==
    <<"<">> \o UseTool \o <<" ">> \o KeyName \o <<"=">> \o MarshalString(name) \o <<">">>

CloseTag == <<"<", "/">> \o UseTool \o <<">">>

XmlBody(turn) ==
    IF turn.padded THEN <<"\n">> \o MarshalObject(turn.members) \o <<" ", "\n">>
    ELSE MarshalObject(turn.members)

XmlText(turn) == turn.reasoning \o OpenTag(turn.name) \o XmlBody(turn) \o CloseTag

(* ---- the envelope parser ---- *)
NewStreamXmlParser ==
    [mode |-> "text", text |-> <<>>, word |-> <<>>, attr |-> <<>>, name |-> <<>>,
     attributes |-> <<>>, content |-> <<>>]

(* one character arrives *)
FeedXml(x, ch) ==
    CASE x.mode = "text" ->
            IF ch = "<" THEN [x EXCEPT !.mode = "elem", !.word = <<>>]
            ELSE [x EXCEPT !.text = Append(@, ch)]
      [] x.mode = "elem" ->
            IF ch = " " THEN [x EXCEPT !.mode = "attr", !.name = x.word, !.word = <<>>]
            ELSE IF ch = ">" THEN [x EXCEPT !.mode = "content", !.name = x.word,
                                            !.word = <<>>]
            ELSE [x EXCEPT !.word = Append(@, ch)]
      [] x.mode = "attr" ->
            IF ch = "=" THEN [x EXCEPT !.mode = "quote", !.attr = x.word, !.word = <<>>]
            ELSE IF ch = ">" THEN [x EXCEPT !.mode = "content", !.word = <<>>]
            ELSE IF ch = " " THEN x
            ELSE [x EXCEPT !.word = Append(@, ch)]
      [] x.mode = "quote" ->
            IF ch = Quote THEN [x EXCEPT !.mode = "value", !.word = <<>>] ELSE x
      [] x.mode = "value" ->
            IF ch = Quote
            THEN [x EXCEPT !.mode = "attr", !.attributes = Put(@, x.attr, x.word),
                           !.word = <<>>]
            ELSE [x EXCEPT !.word = Append(@, ch)]
      [] x.mode = "content" ->
            IF ch = "<" THEN [x EXCEPT !.mode = "close"]
            ELSE [x EXCEPT !.content = Append(@, ch)]
      [] x.mode = "close" ->
            IF ch = ">" THEN [x EXCEPT !.mode = "closed"] ELSE x
      [] OTHER -> x

RECURSIVE FeedXmlAll(_, _)
FeedXmlAll(x, chars) ==
    IF x.mode = "closed" \/ chars = <<>> THEN x
    ELSE FeedXmlAll(FeedXml(x, Head(chars)), Tail(chars))

NilNode == [nil |-> TRUE, name |-> <<>>, attributes |-> <<>>, content |-> <<>>,
            partial |-> TRUE]

(* xmlParser.GetXmlNode(): the element, once its opening tag is complete *)
GetXmlNode(x) ==
    IF x.mode \in {"content", "close", "closed"}
    THEN [nil |-> FALSE, name |-> x.name, attributes |-> x.attributes,
          content |-> x.content, partial |-> x.mode # "closed"]
    ELSE NilNode

(* xmlParser.GetText(): the text before the element *)
GetText(x) == x.text

(* jsonParser.Get(""): the top-level object as parsed so far *)
GetRoot(st) ==
    IF st.phase = "done" THEN st.root
    ELSE IF st.stack = <<>> THEN Nil
    ELSE ObjectValue(Collapse(st.stack))

(* json.Unmarshal(jsonContent, &input) into a map *)
UnmarshalObject(chars) ==
    LET st == FeedAll(NewStreamJSONParser, chars)
    IN IF st.phase # "done" \/ st.trailing \/ st.root.t # "o"
       THEN [err |-> TRUE, input |-> <<>>]
       ELSE [err |-> FALSE, input |-> st.root.v]

(* ---- ToolCallXMLParser ---- *)
NewToolCallXMLParser ==
    [reasoning |-> <<>>, toolName |-> <<>>, jsonBuffer |-> <<>>, foundTag |-> FALSE,
     jsonParser |-> NewStreamJSONParser, forwarded |-> <<>>]

(* what of the trimmed content is forwarded to the JSON parser *)
NewContentWhole(jsonContent, buffered) == jsonContent

NewContent(jsonContent, buffered) ==
    SubSeq(jsonContent, Len(buffered) + 1, Len(jsonContent))

XmlResult(p, call, isCompleted, err) ==
    [state |-> p, call |-> call, completed |-> isCompleted,
     reasoning |-> IF call.nil THEN <<>> ELSE p.reasoning, err |-> err]

(* ToolCallXMLParser.Parse; a slice beyond the content panics *)
ParseXml(p, x) ==
    LET node == GetXmlNode(x)
    IN IF node.nil \/ node.name # UseTool THEN XmlResult(p, NilToolCall, FALSE, "nil")
       ELSE LET found == IF p.foundTag THEN p
                         ELSE [p EXCEPT !.foundTag = TRUE,
                                        !.toolName = IF KeyName \in DOMAIN node.attributes
                                                     THEN node.attributes[KeyName] ELSE @,
                                        !.reasoning = IF GetText(x) # <<>>
                                                      THEN TrimSpaceOf(GetText(x)) ELSE @]
                jsonContent == TrimSpaceOf(node.content)
                newContent == NewContent(jsonContent, found.jsonBuffer)
                q == IF jsonContent # found.jsonBuffer
                     THEN [found EXCEPT !.jsonBuffer = jsonContent,
                                        !.jsonParser = FeedAll(@, newContent),
                                        !.forwarded = @ \o newContent]
                     ELSE found
            IN IF Len(jsonContent) < Len(found.jsonBuffer)
               THEN XmlResult(found, NilToolCall, FALSE, "panic")
               ELSE IF ~node.partial
               THEN LET u == UnmarshalObject(jsonContent)
                    IN IF u.err THEN XmlResult(q, NilToolCall, FALSE, "error")
                       ELSE XmlResult(q, ToolCallOf(q.toolName, u.input), TRUE, "nil")
               ELSE IF q.toolName # <<>> /\ GetRoot(q.jsonParser).t = "o"
               THEN XmlResult(q, ToolCallOf(q.toolName, GetRoot(q.jsonParser).v),
                              FALSE, "nil")
               ELSE XmlResult(q, NilToolCall, FALSE, "nil")

XmlInit ==
    /\ xmlTurn \in XmlTurns
    /\ xmlDoc = XmlText(xmlTurn)
    /\ xmlFed = 0
    /\ xmlParser = NewStreamXmlParser
    /\ xmlState = NewToolCallXMLParser
    /\ xmlParsed = [call |-> NilToolCall, completed |-> FALSE, reasoning |-> <<>>,
                    err |-> "nil", at |-> 0 - 1]
    /\ xmlEver = [appends |-> 0, tentative |-> FALSE]
    /\ RunIdle
    /\ CompactionIdle
    /\ ProducerIdle
    /\ RegistryOpsIdle
    /\ RunsIdle
    /\ TasksIdle
    /\ JsonDecoderIdle
    /\ HooksIdle
    /\ PairIdle
    /\ ChannelIdle
    /\ ConcurrentIdle

(* Append(content) with the next fragment of the turn, of any length *)
XmlAppend ==
    /\ xmlFed < Len(xmlDoc)
    /\ \E k \in 1..(Len(xmlDoc) - xmlFed) :
          /\ xmlFed' = xmlFed + k
          /\ xmlParser' = FeedXmlAll(xmlParser, SubSeq(xmlDoc, xmlFed + 1, xmlFed + k))
    /\ xmlEver' = [xmlEver EXCEPT !.appends = IF @ < 3 THEN @ + 1 ELSE @]
    /\ UNCHANGED <<xmlTurn, xmlDoc, xmlState, xmlParsed, besidesXmlDecoder>>

(* Parse() *)
XmlParse ==
    /\ xmlParsed.at # xmlFed
    /\ LET res == ParseXml(xmlState, xmlParser)
       IN /\ xmlState' = res.state
          /\ xmlParsed' = [call |-> res.call, completed |-> res.completed,
                           reasoning |-> res.reasoning, err |-> res.err, at |-> xmlFed]
          /\ xmlEver' = [xmlEver EXCEPT
                           !.tentative = @ \/ (~res.completed /\ ~res.call.nil)]
    /\ UNCHANGED <<xmlTurn, xmlDoc, xmlFed, xmlParser, besidesXmlDecoder>>

XmlNext ==
    \/ XmlAppend
    \/ XmlParse

SpecXml == XmlInit /\ [][XmlNext]_vars

LoopInit ==
    /\ variant \in Variants
    /\ hasCallback \in BOOLEAN
    /\ wantsSubstitute \in (IF hasCallback THEN BOOLEAN ELSE {FALSE})
    /\ maxMessageHistory = DefaultMaxMessageHistory
    /\ reqMessages = <<UserMsg("U0")>>
    /\ maxIterations \in 1..MaxIter
    /\ maxRetries \in 0..MaxRetriesBound
    /\ registry = [n \in AgentTools |-> AgentTool(n)]
    /\ messages = <<>>
    /\ i = 0
    /\ consecutiveErrors = 0
    /\ completed = FALSE
    /\ results = "nil"
    /\ outcome = "init"
    /\ toolCalls = <<>>
    /\ nextId = 0
    /\ failsSince = 0
    /\ lastAppended = NoMessage
    /\ calls = <<>>
    /\ decoded = NoCall
    /\ cancelled = FALSE
    /\ userMessage = NoMessage
    /\ prompts = NoPrompt
    /\ eventChan = "none"
    /\ CompactionIdle
    /\ ProducerIdle
    /\ RegistryOpsIdle
    /\ RunsIdle
    /\ TasksIdle
    /\ JsonDecoderIdle
    /\ XmlDecoderIdle
    /\ PairIdle
    /\ ChannelIdle
    /\ ConcurrentIdle

SpecLoop == LoopInit /\ [][Next]_vars

(* ---- C31 ---- *)
(* the before-tool hook of the last pass returned without an error *)
BeforeToolReturned ==
    /\ Called("BeforeToolCall")
    /\ calls[Len(calls)] # "BeforeToolCall"

(* C31: when the before-tool hook returns a substitute result, the tool     *)
(* body is not executed in that pass and the substitute is appended as the  *)
(* tool-role message of the call, the run going on with the next iteration. *)
C31_SubstituteSkipsTool ==
    (wantsSubstitute /\ BeforeToolReturned) =>
        /\ ~Called("Tool")
        /\ lastAppended.role = "tool"
        /\ outcome = "running"

(* ---- C32 ---- *)
(* position of an invocation in the last pass, 0 when it was not made *)
Pos(c) == IF Called(c) THEN CHOOSE k \in 1..Len(calls) : calls[k] = c ELSE 0

(* c was invoked, and d after it *)
Precedes(c, d) == Called(c) /\ Pos(c) < Pos(d)

(* the assistant message of the decoded call is in the history, followed by *)
(* at most the message the tool's outcome produced                          *)
AssistantAppended ==
    \E k \in 1..Len(messages) :
        /\ messages[k] = AssistantMessage(decoded)
        /\ k >= Len(messages) - 1

OrderInPass ==
    /\ (hasCallback /\ Called("Model")) => Precedes("BeforeModel", "Model")
    /\ Called("AfterModel") => Precedes("Model", "AfterModel")
    /\ Called("BeforeToolCall") => Precedes("GetTool", "BeforeToolCall")
    /\ (hasCallback /\ Called("Tool")) => Precedes("BeforeToolCall", "Tool")
    /\ Called("Tool") => Precedes("GetTool", "Tool")
    /\ Called("AfterToolCall") => Precedes("Tool", "AfterToolCall")
    /\ (Called("BeforeToolCall") \/ Called("Tool")) => AssistantAppended

(* a pass whose model invocation failed invokes no after-model hook and a   *)
(* pass whose registry lookup or tool run failed invokes no later hook      *)
HooksOnlyAfterSuccess ==
    /\ ModelFail => ~Called("AfterModel")'
    /\ ToolNotFound => (~Called("BeforeToolCall")' /\ ~Called("Tool")')
    /\ ToolFail => ~Called("AfterToolCall")'

(* C32: within every iteration the before-model hook precedes the model     *)
(* invocation, the after-model hook follows only a model invocation that    *)
(* succeeded, the before-tool hook follows only a successful registry       *)
(* lookup and precedes the tool run, the after-tool hook follows only a     *)
(* tool run that returned no error, and the assistant message of the call   *)
(* is appended before the tool is dispatched.                               *)
C32_OrderWithinIteration == []OrderInPass /\ [][HooksOnlyAfterSuccess]_vars

C32_Witness ==
    /\ calls = <<"BeforeModel", "Model", "AfterModel", "GetTool",
                 "BeforeToolCall", "Tool", "AfterToolCall">>
    /\ decoded.name = "echo"
    /\ lastAppended.role = "tool"

(* ---- C33 ---- *)
(* a pass that ends on model output that cannot be decoded *)
Undecodable == DecodeFail \/ StreamDecodeError

(* C33: in every runner variant a model output that cannot be decoded into  *)
(* a tool call is a recoverable failure: a user-role error message is       *)
(* appended and the next iteration starts (or the retry cap ends the run);  *)
(* a decoder error while a stream is drained does not end a streaming run.  *)
C33_UndecodableRecoverable ==
    [][Undecodable =>
          /\ outcome' \in {"running", "retries_exceeded"}
          /\ outcome' = "running" =>
                (lastAppended'.role = "user" /\ i' = i + 1)]_vars

(* ---- C34 ---- *)
(* a pass that reaches tool.Run *)
RanTool == ToolFail \/ AfterToolFail \/ ToolSuccess \/ MarshalFail

(* AgentContext.IsToolCalled over the tool-call history *)
IsToolCalled(recs, name) == \E k \in 1..Len(recs) : recs[k].name = name

(* C34: the tool-call history of the execution context is append-only and   *)
(* ordered by dispatch: a pass that reached the tool's run, whether the run *)
(* succeeded or failed and complete_task included, appends exactly one      *)
(* record of the call, any other step appends nothing, and has-called(name) *)
(* holds exactly when a record with that name was appended.                 *)
C34_HistoryRecordsDispatches ==
    [][/\ RanTool =>
             /\ toolCalls' = Append(toolCalls, decoded')
             /\ IsToolCalled(toolCalls', decoded'.name)
       /\ ~RanTool => toolCalls' = toolCalls]_vars

(* ---- C35 ---- *)
(* AgentContext.Messages: the slice header stored when the context is made, *)
(* before the loop; the appends of the loop rebind the controller's local   *)
(* variable only, so the context goes on seeing the request's messages      *)
AgentContextMessages(initial) == initial

(* the controller's message list at the moment tool.Run is called *)
MessagesAtDispatch == Append(messages, AssistantMessage(decoded'))

(* C35: whenever a tool is invoked, the message list held by the execution  *)
(* context equals the controller's message list at that moment, with every  *)
(* assistant, tool and injected error message appended so far.              *)
C35_ContextSeesMessages ==
    [][RanTool => AgentContextMessages(reqMessages) = MessagesAtDispatch]_vars

(* ---- C36 ---- *)
(* the tool-role message of output out answers the call tc *)
EncodesResult(m, v, tc, out) ==
    /\ m.role = "tool"
    /\ IF out = "nil"
       THEN m.text = "Tool call success, no results" /\ m.call = NoCall
       ELSE /\ m.call.id = tc.id
            /\ m.call.name = tc.name
            /\ m.call.input = tc.input
            /\ m.call.output = Serialize(v, out)

(* the message built for either kind of output of the decoded call *)
ResultEncoding ==
    \A out \in {"nil", "val"} :
        EncodesResult(ToolResultMessage(variant, decoded, out), variant, decoded, out)

(* what a pass that goes on to the next iteration appends after the tool ran *)
AppendedAfterTool ==
    /\ (ToolSuccess /\ decoded'.name # CompleteTaskToolName) =>
          \E out \in {"nil", "val"} :
             /\ messages' = messages \o <<AssistantMessage(decoded'),
                                          ToolResultMessage(variant, decoded', out)>>
             /\ EncodesResult(lastAppended', variant, decoded', out)
    /\ (ToolFail /\ outcome' = "running") =>
          /\ Len(messages') = Len(messages) + 2
          /\ messages'[Len(messages) + 1] = AssistantMessage(decoded')
          /\ messages'[Len(messages) + 2].role = "user"

PairOutputs == {"nil", "val", "unmarshalable"}

(* what a turn can bring: the outcome of the model and of the tool *)
TurnOutcomes ==
    {"cancelled", "model_failure", "undecodable", "unknown_tool", "tool_error",
     "tool_success", "completion"}

(* the hook that returns an error in the turn, if it is reached *)
FailingHooks == {"none", "BeforeModel", "AfterModel", "BeforeToolCall", "AfterToolCall"}

(* the locals of a blocking run when its loop is entered *)
RunStarted ==
    [i |-> 0, consecutiveErrors |-> 0, completed |-> FALSE, outcome |-> "running",
     roles |-> <<>>, calls |-> <<>>, records |-> <<>>, wire |-> "",
     modelCalls |-> 0, toolRuns |-> 0]

(* a pass with its invocations of the model and of a tool counted *)
Metered(st) ==
    [st EXCEPT !.modelCalls = @ + (IF \E k \in 1..Len(st.calls) : st.calls[k] = "Model"
                                   THEN 1 ELSE 0),
               !.toolRuns = @ + (IF \E k \in 1..Len(st.calls) : st.calls[k] = "Tool"
                                 THEN 1 ELSE 0)]

(* a counted failure that injects the error without advancing the loop index *)
JsonCountedNoAdvance(st, r, cs, recs, roles) ==
    LET cnt == st.consecutiveErrors + 1
    IN IF r > 0 /\ cnt > r
       THEN [st EXCEPT !.consecutiveErrors = cnt, !.outcome = "retries_exceeded",
                       !.calls = cs, !.records = recs, !.roles = roles]
       ELSE [st EXCEPT !.consecutiveErrors = cnt, !.roles = Append(roles, "user"),
                       !.calls = cs, !.records = recs]

(* a counted failure of the JSON runner: count, give up or inject *)
JsonCounted(st, r, cs, recs, roles) ==
    LET cnt == st.consecutiveErrors + 1
    IN IF r > 0 /\ cnt > r
       THEN [st EXCEPT !.consecutiveErrors = cnt, !.outcome = "retries_exceeded",
                       !.calls = cs, !.records = recs, !.roles = roles]
       ELSE [st EXCEPT !.consecutiveErrors = cnt, !.roles = Append(roles, "user"),
                       !.i = @ + 1, !.calls = cs, !.records = recs]

(* a counted failure that gives up one failure early *)
XmlCountedOffByOne(st, r, cs, recs, roles) ==
    LET cnt == st.consecutiveErrors + 1
    IN IF r > 0 /\ cnt >= r
       THEN [st EXCEPT !.consecutiveErrors = cnt, !.outcome = "retries_exceeded",
                       !.calls = cs, !.records = recs, !.roles = roles]
       ELSE [st EXCEPT !.consecutiveErrors = cnt, !.roles = Append(roles, "user"),
                       !.i = @ + 1, !.calls = cs, !.records = recs]

(* a counted failure of the XML runner: count, give up or inject *)
XmlCounted(st, r, cs, recs, roles) ==
    LET cnt == st.consecutiveErrors + 1
    IN IF r > 0 /\ cnt > r
       THEN [st EXCEPT !.consecutiveErrors = cnt, !.outcome = "retries_exceeded",
                       !.calls = cs, !.records = recs, !.roles = roles]
       ELSE [st EXCEPT !.consecutiveErrors = cnt, !.roles = Append(roles, "user"),
                       !.i = @ + 1, !.calls = cs, !.records = recs]

(* one pass of the loop of JsonCompletionRunner.Run for the turn outcome t, *)
(* the hook h failing if it is reached, and the tool output out             *)
PassJson(st, cb, r, t, h, out) ==
    LET H(x) == IF cb THEN <<x>> ELSE <<>>
        bm == H("BeforeModel")
        mo == bm \o <<"Model">>
        am == mo \o H("AfterModel")
        gt == am \o <<"GetTool">>
        bt == gt \o H("BeforeToolCall")
        tl == bt \o <<"Tool">>
        at == tl \o H("AfterToolCall")
        name == IF t = "completion" THEN CompleteTaskToolName ELSE "echo"
        withAssistant == Append(st.roles, "assistant")
    IN IF t = "cancelled"
       THEN [st EXCEPT !.outcome = "cancelled", !.calls = <<>>]
       ELSE IF cb /\ h = "BeforeModel"
       THEN [st EXCEPT !.outcome = "callback_failed", !.calls = bm]
       ELSE IF t = "model_failure"
       THEN JsonCounted(st, r, mo, st.records, st.roles)
       ELSE IF cb /\ h = "AfterModel"
       THEN [st EXCEPT !.outcome = "callback_failed", !.calls = am]
       ELSE IF t = "undecodable"
       THEN JsonCounted(st, r, am, st.records, st.roles)
       ELSE IF t = "unknown_tool"
       THEN [st EXCEPT !.roles = withAssistant \o <<"user">>, !.i = @ + 1, !.calls = gt]
       ELSE IF cb /\ h = "BeforeToolCall"
       THEN [st EXCEPT !.roles = withAssistant, !.outcome = "callback_failed",
                       !.calls = bt]
       ELSE IF t = "tool_error"
       THEN JsonCounted(st, r, tl, Append(st.records, name), withAssistant)
       ELSE IF cb /\ h = "AfterToolCall"
       THEN [st EXCEPT !.roles = withAssistant, !.outcome = "callback_failed",
                       !.calls = at]
       ELSE IF t = "completion"
       THEN [st EXCEPT !.roles = withAssistant, !.records = Append(@, name),
                       !.consecutiveErrors = 0, !.completed = TRUE,
                       !.i = @ + 1, !.calls = at]
       ELSE IF out = "unmarshalable"
       THEN [st EXCEPT !.roles = withAssistant, !.records = Append(@, name),
                       !.consecutiveErrors = 0, !.outcome = "marshal_failed",
                       !.calls = at]
       ELSE [st EXCEPT !.roles = withAssistant \o <<"tool">>,
                       !.records = Append(@, name), !.consecutiveErrors = 0,
                       !.i = @ + 1, !.calls = at,
                       !.wire = IF out = "nil" THEN "Tool call success, no results"
                                ELSE Serialize("json", out)]

(* one pass of the loop of XmlCompletionRunner.Run for the turn outcome t, *)
(* the hook h failing if it is reached, and the tool output out             *)
PassXml(st, cb, r, t, h, out) ==
    LET H(x) == IF cb THEN <<x>> ELSE <<>>
        bm == H("BeforeModel")
        mo == bm \o <<"Model">>
        am == mo \o H("AfterModel")
        gt == am \o <<"GetTool">>
        bt == gt \o H("BeforeToolCall")
        tl == bt \o <<"Tool">>
        at == tl \o H("AfterToolCall")
        name == IF t = "completion" THEN CompleteTaskToolName ELSE "echo"
        withAssistant == Append(st.roles, "assistant")
    IN IF t = "cancelled"
       THEN [st EXCEPT !.outcome = "cancelled", !.calls = <<>>]
       ELSE IF cb /\ h = "BeforeModel"
       THEN [st EXCEPT !.outcome = "callback_failed", !.calls = bm]
       ELSE IF t = "model_failure"
       THEN XmlCounted(st, r, mo, st.records, st.roles)
       ELSE IF cb /\ h = "AfterModel"
       THEN [st EXCEPT !.outcome = "callback_failed", !.calls = am]
       ELSE IF t = "undecodable"
       THEN XmlCounted(st, r, am, st.records, st.roles)
       ELSE IF t = "unknown_tool"
       THEN [st EXCEPT !.roles = withAssistant \o <<"user">>, !.i = @ + 1, !.calls = gt]
       ELSE IF cb /\ h = "BeforeToolCall"
       THEN [st EXCEPT !.roles = withAssistant, !.outcome = "callback_failed",
                       !.calls = bt]
       ELSE IF t = "tool_error"
       THEN XmlCounted(st, r, tl, Append(st.records, name), withAssistant)
       ELSE IF cb /\ h = "AfterToolCall"
       THEN [st EXCEPT !.roles = withAssistant, !.outcome = "callback_failed",
                       !.calls = at]
       ELSE IF t = "completion"
       THEN [st EXCEPT !.roles = withAssistant, !.records = Append(@, name),
                       !.consecutiveErrors = 0, !.completed = TRUE,
                       !.i = @ + 1, !.calls = at]
       ELSE [st EXCEPT !.roles = withAssistant \o <<"tool">>,
                       !.records = Append(@, name), !.consecutiveErrors = 0,
                       !.i = @ + 1, !.calls = at,
                       !.wire = IF out = "nil" THEN "Tool call success, no results"
                                ELSE Serialize("xml", out)]

(* the loop condition of a blocking run *)
PairInLoop(st) == st.outcome = "running" /\ st.i < pairMaxIterations /\ ~st.completed

PairInit ==
    /\ pairCallback \in BOOLEAN
    /\ pairMaxIterations \in 1..MaxIter
    /\ pairMaxRetries \in 0..MaxRetriesBound
    /\ jsonRun = RunStarted
    /\ xmlRun = RunStarted
    /\ RunIdle
    /\ CompactionIdle
    /\ ProducerIdle
    /\ RegistryOpsIdle
    /\ RunsIdle
    /\ TasksIdle
    /\ JsonDecoderIdle
    /\ XmlDecoderIdle
    /\ HooksIdle
    /\ ChannelIdle
    /\ ConcurrentIdle

(* both runs make a pass on the same turn *)
PairPass ==
    /\ PairInLoop(jsonRun) \/ PairInLoop(xmlRun)
    /\ \E t \in TurnOutcomes, out \in PairOutputs,
          h \in (IF pairCallback THEN FailingHooks ELSE {"none"}) :
          /\ jsonRun' = IF PairInLoop(jsonRun)
                        THEN Metered(PassJson(jsonRun, pairCallback, pairMaxRetries,
                                              t, h, out))
                        ELSE jsonRun
          /\ xmlRun' = IF PairInLoop(xmlRun)
                       THEN Metered(PassXml(xmlRun, pairCallback, pairMaxRetries,
                                            t, h, out))
                       ELSE xmlRun
    /\ UNCHANGED <<pairCallback, pairMaxIterations, pairMaxRetries, besidesPair>>

(* a run whose loop has ended returns the response *)
Returns(st) ==
    IF st.outcome = "running" /\ ~PairInLoop(st)
    THEN [st EXCEPT !.outcome = "response"] ELSE st

PairReturn ==
    /\ ~PairInLoop(jsonRun)
    /\ ~PairInLoop(xmlRun)
    /\ jsonRun.outcome = "running" \/ xmlRun.outcome = "running"
    /\ jsonRun' = Returns(jsonRun)
    /\ xmlRun' = Returns(xmlRun)
    /\ UNCHANGED <<pairCallback, pairMaxIterations, pairMaxRetries, besidesPair>>

PairNext == PairPass \/ PairReturn

SpecPair == PairInit /\ [][PairNext]_vars

(* ---- C37 ---- *)
(* a run without the wire form of its last tool output *)
UpToWire(st) == [st EXCEPT !.wire = ""]

SpecPairFair == SpecPair /\ WF_vars(PairNext)

Terminated(st) == st.outcome # "running"

(* the run has invoked the model and the tools at most max-iterations times *)
WithinBudget(st) ==
    /\ st.i <= pairMaxIterations
    /\ st.modelCalls <= pairMaxIterations
    /\ st.toolRuns <= pairMaxIterations

(* a pass takes one unit of the budget, or ends the run *)
ConsumesOne(st, after) ==
    (PairInLoop(st) /\ after # st) =>
        \/ after.i = st.i + 1 /\ after.outcome = "running"
        \/ after.i = st.i /\ Terminated(after)

(* C38: every blocking Run terminates: with max-iterations N it returns     *)
(* after at most N model invocations and at most N tool invocations, every  *)
(* iteration consuming exactly one unit of the budget whatever its outcome. *)
C38_BlockingTerminates ==
    /\ [](WithinBudget(jsonRun) /\ WithinBudget(xmlRun))
    /\ [][ConsumesOne(jsonRun, jsonRun') /\ ConsumesOne(xmlRun, xmlRun')]_vars
    /\ <>(Terminated(jsonRun) /\ Terminated(xmlRun))

C38_Witness ==
    /\ pairMaxIterations = MaxIter
    /\ jsonRun.outcome = "response"
    /\ ~jsonRun.completed
    /\ jsonRun.i = MaxIter
    /\ jsonRun.modelCalls = MaxIter
    /\ jsonRun.toolRuns = MaxIter
    /\ xmlRun.outcome = "response"
    /\ xmlRun.modelCalls = MaxIter

(* ======================================================================== *)
(* The producer goroutine of a streaming run and its event channel: the     *)
(* buffered channel, the sends, the cancellation token and the consumer.    *)
(* ======================================================================== *)
(* make(chan AgentEvent, 100) *)
EventBuffer == 100

ChannelInit ==
    /\ chanLen = 0
    /\ tokenTripped = FALSE
    /\ receiving = TRUE
    /\ sender = "loop"
    /\ pending = ""
    /\ RunIdle
    /\ CompactionIdle
    /\ ProducerIdle
    /\ RegistryOpsIdle
    /\ RunsIdle
    /\ TasksIdle
    /\ JsonDecoderIdle
    /\ XmlDecoderIdle
    /\ HooksIdle
    /\ PairIdle
    /\ ConcurrentIdle

(* the caller trips the cancellation token *)
ChanCancel ==
    /\ ~tokenTripped
    /\ tokenTripped' = TRUE
    /\ UNCHANGED <<chanLen, receiving, sender, pending, besidesChannel>>

(* the producer has an event for the consumer (a reasoning chunk, a partial *)
(* or final use-tool event) and reaches `eventChan <- AgentEvent{...}`      *)
ChanEvent ==
    /\ sender = "loop"
    /\ sender' = "send"
    /\ pending' = "event"
    /\ UNCHANGED <<chanLen, tokenTripped, receiving, besidesChannel>>

(* a select takes its ctx.Done() case: the error event is sent, then return *)
ChanObserveDone ==
    /\ sender = "loop"
    /\ tokenTripped
    /\ sender' = "send"
    /\ pending' = "last"
    /\ UNCHANGED <<chanLen, tokenTripped, receiving, besidesChannel>>

(* the run ends for another reason: its last event is sent, then return *)
ChanLastEvent ==
    /\ sender = "loop"
    /\ sender' = "send"
    /\ pending' = "last"
    /\ UNCHANGED <<chanLen, tokenTripped, receiving, besidesChannel>>

(* the send returns: it needs a free slot of the buffer *)
ChanSendReturns ==
    /\ sender = "send"
    /\ chanLen < EventBuffer
    /\ chanLen' = chanLen + 1
    /\ sender' = IF pending = "last" THEN "returning" ELSE "loop"
    /\ pending' = ""
    /\ UNCHANGED <<tokenTripped, receiving, besidesChannel>>

(* defer close(eventChan) *)
ChanClose ==
    /\ sender = "returning"
    /\ sender' = "closed"
    /\ UNCHANGED <<chanLen, tokenTripped, receiving, pending, besidesChannel>>

(* the consumer receives an event *)
ChanReceive ==
    /\ receiving
    /\ chanLen > 0
    /\ chanLen' = chanLen - 1
    /\ UNCHANGED <<tokenTripped, receiving, sender, pending, besidesChannel>>

(* the consumer stops receiving *)
ChanStopReceiving ==
    /\ receiving
    /\ receiving' = FALSE
    /\ UNCHANGED <<chanLen, tokenTripped, sender, pending, besidesChannel>>

ChannelNext ==
    \/ ChanCancel
    \/ ChanEvent
    \/ ChanObserveDone
    \/ ChanLastEvent
    \/ ChanSendReturns
    \/ ChanClose
    \/ ChanReceive
    \/ ChanStopReceiving

(* the goroutine is scheduled: a send that can return does, the deferred    *)
(* close runs; a select with ctx.Done() ready takes that case sooner or     *)
(* later, whatever else is ready. Nothing is assumed of the consumer.       *)
SpecChannel ==
    /\ ChannelInit
    /\ [][ChannelNext]_vars
    /\ WF_vars(ChanSendReturns)
    /\ WF_vars(ChanClose)
    /\ SF_vars(ChanObserveDone)

(* ---- C39 ---- *)
(* C39: once the cancellation token is tripped the producer eventually      *)
(* exits and closes the event channel, whatever the consumer does, even a   *)
(* consumer that stopped receiving while the buffer is full: the producer   *)
(* never stays blocked for ever on an event send.                           *)
C39_CancelClosesChannel == tokenTripped ~> (sender = "closed")

(* ======================================================================== *)
(* Two calls of Run on one runner at the same time, with the same output    *)
(* schema: each call has its own locals, the runner's registry is shared.   *)
(* The registry's operations are atomic (they hold its lock throughout).    *)
(* ======================================================================== *)
Callers == {1, 2}

(* turns a call's model may produce in a run *)
MaxCallTurns == 2

(* what the model answers in a turn: a failure, or a call of a tool which   *)
(* then succeeds or fails                                                   *)
ModelTurns ==
    {[kind |-> "model_failure", name |-> "", fails |-> FALSE]}
    \cup {[kind |-> "call", name |-> n, fails |-> FALSE] : n \in CalledNames}
    \cup {[kind |-> "call", name |-> "echo", fails |-> TRUE]}

(* the outcome of a turn, given what the registry holds when it is looked up *)
TurnOutcome(reg, turn) ==
    IF turn.kind # "call" THEN turn.kind
    ELSE IF GetTool(reg, turn.name).err # "nil" THEN "unknown_tool"
    ELSE IF turn.fails THEN "tool_error"
    ELSE IF turn.name = CompleteTaskToolName THEN "completion"
    ELSE "tool_success"

(* the loop condition of one call *)
CallInLoop(st) == st.outcome = "running" /\ st.i < MaxCallTurns /\ ~st.completed

(* the pass of one call on a turn, looked up in the registry reg *)
CallPass(reg, st, turn) ==
    Metered(PassJson(st, FALSE, 0, TurnOutcome(reg, turn), "none", "val"))

(* the same call of Run made alone on the runner: the locals after turns *)
RECURSIVE RunAlone(_, _, _)
RunAlone(reg, st, turns) ==
    IF turns = <<>> \/ ~CallInLoop(st) THEN st
    ELSE RunAlone(reg, CallPass(reg, st, Head(turns)), Tail(turns))

ConcurrentInit ==
    /\ sharedTools = [n \in AgentTools |-> AgentTool(n)]
    /\ callPhase = [c \in Callers |-> "entered"]
    /\ callLocals = [c \in Callers |-> RunStarted]
    /\ callTurns = [c \in Callers |-> <<>>]
    /\ RunIdle
    /\ CompactionIdle
    /\ ProducerIdle
    /\ RegistryOpsIdle
    /\ RunsIdle
    /\ TasksIdle
    /\ JsonDecoderIdle
    /\ XmlDecoderIdle
    /\ HooksIdle
    /\ PairIdle
    /\ ChannelIdle

(* _ = r.toolRegistry.RegisterTool(NewCompleteTaskTool(req.OutputSchema, ...)) *)
CallRegister(c) ==
    /\ callPhase[c] = "entered"
    /\ sharedTools' = RegisterTool(sharedTools, NewCompleteTaskTool(OutputSchema)).tools
    /\ callPhase' = [callPhase EXCEPT ![c] = "looping"]
    /\ UNCHANGED <<callLocals, callTurns, besidesConcurrent>>

(* one pass of the loop of call c *)
CallTurn(c) ==
    /\ callPhase[c] = "looping"
    /\ CallInLoop(callLocals[c])
    /\ \E turn \in ModelTurns :
          /\ callLocals' = [callLocals EXCEPT ![c] = CallPass(sharedTools, @, turn)]
          /\ callTurns' = [callTurns EXCEPT ![c] = Append(@, turn)]
    /\ UNCHANGED <<sharedTools, callPhase, besidesConcurrent>>

(* the loop of call c has ended: Run returns *)
CallReturn(c) ==
    /\ callPhase[c] = "looping"
    /\ ~CallInLoop(callLocals[c])
    /\ callLocals' = [callLocals EXCEPT ![c] = Returns(@)]
    /\ callPhase' = [callPhase EXCEPT ![c] = "returned"]
    /\ UNCHANGED <<sharedTools, callTurns, besidesConcurrent>>

ConcurrentNext ==
    \E c \in Callers :
        \/ CallRegister(c)
        \/ CallTurn(c)
        \/ CallReturn(c)

SpecConcurrent == ConcurrentInit /\ [][ConcurrentNext]_vars

(* ---- C40 ---- *)
(* the registry of a runner on which the call is made alone *)
AloneTools ==
    RegisterTool([n \in AgentTools |-> AgentTool(n)],
                 NewCompleteTaskTool(OutputSchema)).tools

(* the locals call c would have, had it been made alone and got its turns *)
Alone(c) ==
    LET st == RunAlone(AloneTools, RunStarted, callTurns[c])
    IN IF callPhase[c] = "returned" THEN Returns(st) ELSE st

(* C40: two concurrent calls of Run on one runner with the same output      *)
(* schema do not interfere: the registry is their only shared state, and    *)
(* the messages, the tool-call records and the outcome of each call are     *)
(* those of the same call made alone.                                       *)
C40_ConcurrentRunsIndependent ==
    \A c \in Callers : callPhase[c] # "entered" => callLocals[c] = Alone(c)

(* both calls have returned, one completed and one exhausted its iterations *)
C40_Witness ==
    /\ \A c \in Callers : callPhase[c] = "returned"
    /\ callLocals[1].completed
    /\ callLocals[1].records = <<"echo", CompleteTaskToolName>>
    /\ ~callLocals[2].completed
    /\ callLocals[2].i = MaxCallTurns
    /\ callLocals[2].roles = <<"assistant", "user", "user">>

====
